---- MODULE Spec2Model ----
(***************************************************************************)
(* Model of the data-structure exercises of the repository:                *)
(*   DSA/Data Structure/6_trees/heap.py    (MinHeap)                        *)
(*   DSA/Data Structure/6_trees/bst.py     (BST)                            *)
(*   DSA/Data Structure/7_graphs/simple.py (Graph)                          *)
(*   DSA/Data Structure/5._hash_map.py     (HashMap)                        *)
(*   DSA/algorithms/searching.py           (binary_search)                  *)
(*   DSA/Data Structure/SlidingWindowSubArraySum.py                         *)
(*   DSA/Data Structure/3._linked_list.py  (SingleLinkedList,               *)
(*                          check_single_list_cycle, DoublyLinkedList)      *)
(*   DSA/Data Structure/4.1_queue_.py      (CirclularQueue)                 *)
(*   DSA/leet_code/35_search_insert_position.py                             *)
(*   DSA/leet_code/2_Add_Two_Numbers.py                                     *)
(*   DSA/algorithms/sorting.py             (merge, merge_sort)              *)
(* Each component is independent of the others, so each has its own        *)
(* specification over its own variables.                                   *)
(***************************************************************************)
EXTENDS Integers, Sequences, FiniteSets, TLC

\* ---------------------------------------------------------------- bounds
\* number of MinHeap.insert calls in one run
MaxInserts == 6
\* heap keys are drawn from 0..MaxKey
MaxKey == 2
\* BST values are drawn from -MaxVal..MaxVal
MaxVal == 2
\* the deepest recursion of get_all_paths that is followed
MaxDepth == 8
\* HashMap keys are drawn from -2..MaxHKey, values from 1..MaxHVal and the
\* bucket count from 2..MaxSize
MaxHKey == 0
MaxHVal == 2
MaxSize == 3
\* binary_search is given ascending lists of at most MaxLen numbers from 1..MaxElem
MaxLen == 4
MaxElem == 4
\* sliding_window_sum_subarray is given arrays of at most MaxArr numbers from
\* -MaxAbs..MaxAbs
MaxArr == 3
MaxAbs == 2
\* a SingleLinkedList is given at most MaxNodes nodes with data from 0..MaxData
MaxNodes == 4
MaxData == 2
\* check_single_list_cycle is given structures of MaxCycleNodes nodes
MaxCycleNodes == 3
\* a CirclularQueue has a capacity from 1..MaxCap and is given values from
\* 0..MaxItem by at most MaxCalls enqueue calls
MaxCap == 3
MaxItem == 2
MaxCalls == 3
\* addTwoNumbers is given the lists of at most MaxDigits digits, and the
\* lists of its examples
MaxDigits == 2
\* merge_sort is given lists of at most MaxSort numbers from -1..MaxSortVal,
\* merge two non-decreasing lists of at most MaxArr such numbers
MaxSort == 4
MaxSortVal == 1

\* Python's None, and a value v that is not None (so that None differs from every value)
None == <<>>
Some(v) == <<v>>

VARIABLES
    \* MinHeap
    heap,        \* self.heap, a 1-based sequence: heap[i+1] is Python's self.heap[i]
    ins,         \* the keys passed to insert so far, in call order
    outs,        \* the values returned by extract_min on a non-empty heap, in call order
    interleaved, \* TRUE once an insert has followed an extract_min
    hop,         \* the last MinHeap call: <<name, argument, heap before, return value>>
    \* BST
    tree,        \* the root BST object: <<data, left, right>>, a missing child is <<>>
    rootData,    \* the value the root was constructed with
    inserted,    \* the set of values passed to insert so far
    bop,         \* the last BST call: <<name, argument, tree before, return value>>
    \* Graph
    edges,       \* self.edges
    graph_dict,  \* self.graph_dict: node -> sequence of adjacent nodes
    gop,         \* the last Graph call: <<name, start, end, return value>>
    \* Graph.get_all_paths, one recursive call or return at a time
    stack,       \* the active calls, outermost first: <<start, path, i, temp_paths>>
    wcall,       \* the arguments of the outermost call: <<start, end>>
    wret,        \* what the outermost call returned, None while it has not
    \* HashMap
    hsize,       \* self.size
    buckets,     \* self.buckets: bucket i+1 is the chain of <<key, value>> nodes
                 \* of Python's self.buckets[i], head first; <<>> is None
    hlive,       \* the keys put and not removed since
    hput,        \* key -> the value of its most recent put, None if the key was
                 \* never put or was removed since
    overwrote,   \* TRUE once a put found its key already stored
    collided,    \* TRUE once a put added a node to a bucket that held another
    mop,         \* the last HashMap call: <<name, key, value, buckets before, return value>>
    \* binary_search
    bs_ls,       \* ls
    bs_num,      \* num
    bs_start,    \* start
    bs_end,      \* end
    bs_ret,      \* the value returned, None while the loop runs
    \* sliding_window_sum_subarray
    sw_arr,      \* arr
    sw_op,       \* the last call: <<window, return value>>
    \* SingleLinkedList
    sl_nodes,    \* the Node objects created so far: node n is sl_nodes[n] = <<data, next>>,
                 \* next being a node number, or 0 for None
    sl_head,     \* self.head, a node number, or 0 for None
    sl_op,       \* the last SingleLinkedList call: <<name, argument, <<nodes, head>> before,
                 \* return value>>
    \* check_single_list_cycle
    cy_next,     \* node -> its next field, a node number, or 0 for None
    cy_head,     \* head
    cy_slow,     \* slow
    cy_fast,     \* fast
    cy_ret,      \* the value returned, None while the loop runs
    \* CirclularQueue
    cq_capacity, \* self.capacity
    cq_queue,    \* self.queue, a 1-based sequence: cq_queue[i+1] is Python's self.queue[i]
    cq_front,    \* self.front
    cq_rear,     \* self.rear
    cq_enq,      \* the values passed to the enqueue calls that did not answer
                 \* "Queue is full!", in call order
    cq_deq,      \* the values returned by dequeue other than "Queue is empty!", in call order
    cq_op,       \* the last CirclularQueue call: <<name, argument, <<queue, front, rear>>
                 \* before, return value>>
    \* Solution.searchInsert and Solution.searchInsert2
    si_nums,     \* nums
    si_target,   \* target
    si_ret,      \* what searchInsert(nums, target) returned, None before the call
    si_ret2,     \* what searchInsert2(nums, target) returned, None before the call
    \* Solution.addTwoNumbers
    at_heap,     \* the ListNode objects created so far: node n is at_heap[n] = <<val, next>>,
                 \* next being a node number, or 0 for None
    at_l1,       \* l1, a node number
    at_l2,       \* l2, a node number
    at_ret,      \* what addTwoNumbers(l1, l2) returned: Some(node number), None before the call
    \* merge_sort and merge
    ms_fn,       \* the function that is called: "merge_sort" or "merge"
    ms_args,     \* its arguments: <<arr>> for merge_sort, <<left, right>> for merge
    ms_ret,      \* the list it returned, None before the call
    \* DoublyLinkedList
    dl_nodes,    \* the DNode objects created so far: node n is dl_nodes[n] =
                 \* <<data, next, prev>>, next and prev being node numbers, or 0 for None
    dl_head,     \* self.head, a node number, or 0 for None
    dl_starts,   \* the data passed to insert_at_start so far, in call order
    dl_ends,     \* the data passed to insert_at_end so far, in call order
    dl_op        \* the last DoublyLinkedList call: <<name, argument, <<nodes, head>> before,
                 \* return value>>

heapVars == <<heap, ins, outs, interleaved, hop>>
bstVars == <<tree, rootData, inserted, bop>>
graphVars == <<edges, graph_dict, gop>>
walkVars == <<stack, wcall, wret>>
mapVars == <<hsize, buckets, hlive, hput, overwrote, collided, mop>>
searchVars == <<bs_ls, bs_num, bs_start, bs_end, bs_ret>>
windowVars == <<sw_arr, sw_op>>
listVars == <<sl_nodes, sl_head, sl_op>>
cycleVars == <<cy_next, cy_head, cy_slow, cy_fast, cy_ret>>
queueVars == <<cq_capacity, cq_queue, cq_front, cq_rear, cq_enq, cq_deq, cq_op>>
insertVars == <<si_nums, si_target, si_ret, si_ret2>>
addVars == <<at_heap, at_l1, at_l2, at_ret>>
sortVars == <<ms_fn, ms_args, ms_ret>>
dlistVars == <<dl_nodes, dl_head, dl_starts, dl_ends, dl_op>>
vars == <<heapVars, bstVars, graphVars, walkVars, mapVars, searchVars, windowVars, listVars, cycleVars, queueVars, insertVars, addVars, sortVars, dlistVars>>

\* what the calls on one object leave alone: the objects of the other scripts
notHeap == <<bstVars, graphVars, walkVars, mapVars, searchVars, windowVars, listVars, cycleVars, queueVars, insertVars, addVars, sortVars, dlistVars>>
notBST == <<heapVars, graphVars, walkVars, mapVars, searchVars, windowVars, listVars, cycleVars, queueVars, insertVars, addVars, sortVars, dlistVars>>
notGraph == <<heapVars, bstVars, mapVars, searchVars, windowVars, listVars, cycleVars, queueVars, insertVars, addVars, sortVars, dlistVars>>
notMap == <<heapVars, bstVars, graphVars, walkVars, searchVars, windowVars, listVars, cycleVars, queueVars, insertVars, addVars, sortVars, dlistVars>>
notSearch == <<heapVars, bstVars, graphVars, walkVars, mapVars, windowVars, listVars, cycleVars, queueVars, insertVars, addVars, sortVars, dlistVars>>
notWindow == <<heapVars, bstVars, graphVars, walkVars, mapVars, searchVars, listVars, cycleVars, queueVars, insertVars, addVars, sortVars, dlistVars>>
notList == <<heapVars, bstVars, graphVars, walkVars, mapVars, searchVars, windowVars, cycleVars, queueVars, insertVars, addVars, sortVars, dlistVars>>
notCycle == <<heapVars, bstVars, graphVars, walkVars, mapVars, searchVars, windowVars, listVars, queueVars, insertVars, addVars, sortVars, dlistVars>>
notQueue == <<heapVars, bstVars, graphVars, walkVars, mapVars, searchVars, windowVars, listVars, cycleVars, insertVars, addVars, sortVars, dlistVars>>
notInsert == <<heapVars, bstVars, graphVars, walkVars, mapVars, searchVars, windowVars, listVars, cycleVars, queueVars, addVars, sortVars, dlistVars>>
notAdd == <<heapVars, bstVars, graphVars, walkVars, mapVars, searchVars, windowVars, listVars, cycleVars, queueVars, insertVars, sortVars, dlistVars>>
notSort == <<heapVars, bstVars, graphVars, walkVars, mapVars, searchVars, windowVars, listVars, cycleVars, queueVars, insertVars, addVars, dlistVars>>
notDList == <<heapVars, bstVars, graphVars, walkVars, mapVars, searchVars, windowVars, listVars, cycleVars, queueVars, insertVars, addVars, sortVars>>

\* ================================================================ MinHeap
Keys == 0..MaxKey

\* a // b of Python for a >= 0, b > 0
FloorDiv(a, b) == a \div b

\* parent computed as index // 2
parentHalf(index) == index \div 2

\* MinHeap.parent (0-based index)
parent(index) == IF index < 3 THEN 0 ELSE FloorDiv(index - 1, 2)

\* MinHeap.leftChild (0-based index)
leftChild(index) == 2 * index + 1

\* MinHeap.rightChild (0-based index)
rightChild(index) == 2 * index + 2

\* Python's self.heap[i] on the 1-based sequence h
At(h, i) == h[i + 1]

\* a swap that writes only one of the two slots
SwapLossy(h, i, j) == [h EXCEPT ![i + 1] = h[j + 1]]

\* self.heap[i], self.heap[j] = self.heap[j], self.heap[i]
Swap(h, i, j) == [h EXCEPT ![i + 1] = h[j + 1], ![j + 1] = h[i + 1]]

\* the while loop of insert: sift the element at new_child_index up
RECURSIVE SiftUp(_, _)
SiftUp(h, new_child_index) ==
    IF new_child_index > 0
    THEN LET parent_index == parent(new_child_index)
         IN  IF At(h, parent_index) > At(h, new_child_index)
             THEN SiftUp(Swap(h, parent_index, new_child_index), parent_index)
             ELSE h
    ELSE h

\* MinHeap.insert: the heap after insert(key)
InsertHeap(h, key) == SiftUp(Append(h, key), Len(h))

\* a bubble-down round that never looks at the right child
SmallestNoRight(h, index, size) ==
    IF leftChild(index) < size /\ At(h, leftChild(index)) < At(h, index)
    THEN leftChild(index)
    ELSE index

\* the "smallest" chosen by one round of the bubble-down loop
Smallest(h, index, size) ==
    LET left == leftChild(index)
        right == rightChild(index)
        s1 == IF left < size /\ At(h, left) < At(h, index) THEN left ELSE index
    IN  IF right < size /\ At(h, right) < At(h, s1) THEN right ELSE s1

\* the while True loop of extract_min
RECURSIVE SiftDown(_, _)
SiftDown(h, index) ==
    LET smallest == Smallest(h, index, Len(h))
    IN  IF smallest # index
        THEN SiftDown(Swap(h, index, smallest), smallest)
        ELSE h

\* list.pop(): the list without its last element
PopLast(h) == SubSeq(h, 1, Len(h) - 1)

\* MinHeap.extract_min: the heap after the call
ExtractHeap(h) ==
    IF h = <<>> THEN h
    ELSE IF Len(h) = 1 THEN PopLast(h)
    ELSE SiftDown([PopLast(h) EXCEPT ![1] = h[Len(h)]], 0)

\* extract_min without its "if not self.heap" guard: the read of
\* self.heap[0] raises IndexError on the empty heap
ExtractResultNoGuard(h) ==
    IF Len(h) = 1 THEN Some(h[Len(h)])
    ELSE IF h = <<>> THEN Some("IndexError")
    ELSE Some(h[1])

\* MinHeap.extract_min: the value returned
ExtractResult(h) ==
    IF h = <<>> THEN None
    ELSE IF Len(h) = 1 THEN Some(h[Len(h)])
    ELSE Some(At(h, 0))

Insert(key) ==
    /\ Len(ins) < MaxInserts
    /\ heap' = InsertHeap(heap, key)
    /\ ins' = Append(ins, key)
    /\ interleaved' = (interleaved \/ outs # <<>>)
    /\ hop' = <<"insert", Some(key), heap, None>>
    /\ UNCHANGED <<outs, notHeap>>

ExtractMin ==
    /\ heap' = ExtractHeap(heap)
    /\ outs' = IF ExtractResult(heap) = None THEN outs
               ELSE Append(outs, ExtractResult(heap)[1])
    /\ hop' = <<"extract_min", None, heap, ExtractResult(heap)>>
    /\ UNCHANGED <<ins, interleaved, notHeap>>

HeapNext ==
    \/ \E key \in Keys : Insert(key)
    \/ ExtractMin

\* ==================================================================== BST
Vals == (0 - MaxVal)..MaxVal

\* BST.__init__: a node with no children
Node(data) == <<data, <<>>, <<>>>>

\* a test "data is None" in place of "not data": 0 counts as a value
TruthyZero(data) == TRUE

\* Python's truthiness of an int ("if not data" is taken for 0)
Truthy(data) == data # 0

\* insert with the comparison the wrong way round
RECURSIVE InsertTreeFlipped(_, _)
InsertTreeFlipped(t, data) ==
    IF ~Truthy(data) THEN t
    ELSE IF t[1] = data THEN t
    ELSE IF data > t[1]
         THEN IF t[2] # <<>>
              THEN <<t[1], InsertTreeFlipped(t[2], data), t[3]>>
              ELSE <<t[1], Node(data), t[3]>>
         ELSE IF t[3] # <<>>
              THEN <<t[1], t[2], InsertTreeFlipped(t[3], data)>>
              ELSE <<t[1], t[2], Node(data)>>

\* insert without the "self.data == data" test: an equal value goes right
RECURSIVE InsertTreeNoEqual(_, _)
InsertTreeNoEqual(t, data) ==
    IF ~Truthy(data) THEN t
    ELSE IF data < t[1]
         THEN IF t[2] # <<>>
              THEN <<t[1], InsertTreeNoEqual(t[2], data), t[3]>>
              ELSE <<t[1], Node(data), t[3]>>
         ELSE IF t[3] # <<>>
              THEN <<t[1], t[2], InsertTreeNoEqual(t[3], data)>>
              ELSE <<t[1], t[2], Node(data)>>

\* BST.insert on the subtree t (a node, never <<>>): the subtree after the call
RECURSIVE InsertTree(_, _)
InsertTree(t, data) ==
    IF ~Truthy(data) THEN t
    ELSE IF t[1] = data THEN t
    ELSE IF data < t[1]
         THEN IF t[2] # <<>>
              THEN <<t[1], InsertTree(t[2], data), t[3]>>
              ELSE <<t[1], Node(data), t[3]>>
         ELSE IF t[3] # <<>>
              THEN <<t[1], t[2], InsertTree(t[3], data)>>
              ELSE <<t[1], t[2], Node(data)>>

\* a traversal that prints the node before its left subtree
RECURSIVE inorderNodeFirst(_)
inorderNodeFirst(node) ==
    IF node # <<>>
    THEN <<node[1]>> \o inorderNodeFirst(node[2]) \o inorderNodeFirst(node[3])
    ELSE <<>>

\* BST.inorder: the sequence of values printed
RECURSIVE inorder(_)
inorder(node) ==
    IF node # <<>>
    THEN inorder(node[2]) \o <<node[1]>> \o inorder(node[3])
    ELSE <<>>

\* BST.preorder: the sequence of values printed
RECURSIVE preorder(_)
preorder(node) ==
    IF node = <<>> THEN <<>>
    ELSE <<node[1]>> \o preorder(node[2]) \o preorder(node[3])

\* a search that descends to the left in both branches
RECURSIVE searchLeftOnly(_, _)
searchLeftOnly(node, data) ==
    IF node = <<>> THEN FALSE
    ELSE IF data = node[1] THEN TRUE
    ELSE searchLeftOnly(node[2], data)

\* BST.search
RECURSIVE search(_, _)
search(node, data) ==
    IF node = <<>> THEN FALSE
    ELSE IF data = node[1] THEN TRUE
    ELSE IF data < node[1] THEN search(node[2], data)
    ELSE search(node[3], data)

BSTInsert(data) ==
    /\ tree' = InsertTree(tree, data)
    /\ inserted' = inserted \cup {data}
    /\ bop' = <<"insert", Some(data), tree, None>>
    /\ UNCHANGED <<rootData, notBST>>

BSTSearch(data) ==
    /\ bop' = <<"search", Some(data), tree, Some(search(tree, data))>>
    /\ UNCHANGED <<tree, rootData, inserted, notBST>>

BSTInorder ==
    /\ bop' = <<"inorder", None, tree, Some(inorder(tree))>>
    /\ UNCHANGED <<tree, rootData, inserted, notBST>>

BSTNext ==
    \/ \E data \in Vals : BSTInsert(data)
    \/ \E data \in Vals : BSTSearch(data)
    \/ BSTInorder

\* ================================================================== Graph
\* the module-level routes list
routes ==
    << <<"Mumbai", "Paris">>,
       <<"Mumbai", "Dubai">>,
       <<"Paris", "Dubai">>,
       <<"Paris", "New York">>,
       <<"Dubai", "New York">>,
       <<"New York", "Toronto">> >>

Nodes == {"Mumbai", "Paris", "Dubai", "New York", "Toronto"}

\* the elements of seq at the positions in S, in their order in seq
RECURSIVE Pick(_, _, _)
Pick(seq, S, i) ==
    IF i > Len(seq) THEN <<>>
    ELSE (IF i \in S THEN <<seq[i]>> ELSE <<>>) \o Pick(seq, S, i + 1)

\* the edge lists a Graph is constructed from: routes and every list obtained
\* from it by leaving edges out
EdgeLists == {Pick(routes, S, 1) : S \in SUBSET (1..Len(routes))}

\* a constructor that overwrites the adjacency list instead of appending
RECURSIVE BuildGraphOverwrite(_, _, _)
BuildGraphOverwrite(es, i, d) ==
    IF i > Len(es) THEN d
    ELSE BuildGraphOverwrite(es, i + 1,
                             [n \in DOMAIN d \cup {es[i][1]} |->
                                 IF n = es[i][1] THEN <<es[i][2]>> ELSE d[n]])

\* Graph.__init__: the loop over self.edges that fills self.graph_dict,
\* from edge number i on
RECURSIVE BuildGraph(_, _, _)
BuildGraph(es, i, d) ==
    IF i > Len(es) THEN d
    ELSE LET start == es[i][1]
             end == es[i][2]
         IN  IF start \in DOMAIN d
             THEN BuildGraph(es, i + 1, [d EXCEPT ![start] = Append(d[start], end)])
             ELSE BuildGraph(es, i + 1,
                             [n \in DOMAIN d \cup {start} |->
                                 IF n = start THEN <<end>> ELSE d[n]])

\* the empty dict
EmptyDict == [n \in {} |-> <<>>]

\* Graph.get_all_paths, and its loop over self.graph_dict[start] from
\* position i on
RECURSIVE get_all_paths(_, _, _, _)
RECURSIVE PathsFrom(_, _, _, _, _)
get_all_paths(d, start, end, path) ==
    LET path2 == path \o <<start>>
    IN  IF start = end THEN <<path2>>
        ELSE IF start \notin DOMAIN d THEN <<>>
        ELSE IF Len(d[start]) = 0 THEN <<>>
        ELSE PathsFrom(d, d[start], 1, end, path2)
\* a loop that puts the paths through a later neighbour first
RECURSIVE PathsFromReversed(_, _, _, _, _)
PathsFromReversed(d, adj, i, end, path) ==
    IF i > Len(adj) THEN <<>>
    ELSE PathsFromReversed(d, adj, i + 1, end, path)
             \o get_all_paths(d, adj[i], end, path)

PathsFrom(d, adj, i, end, path) ==
    IF i > Len(adj) THEN <<>>
    ELSE get_all_paths(d, adj[i], end, path) \o PathsFrom(d, adj, i + 1, end, path)

\* a loop that also takes a path of equal length (<= for <)
RECURSIVE ShortestIndexLast(_, _, _, _)
ShortestIndexLast(all_paths, i, shortest_index, shortest_length) ==
    IF i > Len(all_paths) THEN shortest_index
    ELSE IF shortest_index = 0 \/ Len(all_paths[i]) <= shortest_length
         THEN ShortestIndexLast(all_paths, i + 1, i, Len(all_paths[i]))
         ELSE ShortestIndexLast(all_paths, i + 1, shortest_index, shortest_length)

\* the loop of find_shortest_path: the index of the first path of minimum
\* length, scanning all_paths from position i on
RECURSIVE ShortestIndex(_, _, _, _)
ShortestIndex(all_paths, i, shortest_index, shortest_length) ==
    IF i > Len(all_paths) THEN shortest_index
    ELSE IF shortest_index = 0 \/ Len(all_paths[i]) < shortest_length
         THEN ShortestIndex(all_paths, i + 1, i, Len(all_paths[i]))
         ELSE ShortestIndex(all_paths, i + 1, shortest_index, shortest_length)

\* Graph.find_shortest_path
find_shortest_path(d, start, end) ==
    IF start = end THEN <<>>
    ELSE LET all_paths == get_all_paths(d, start, end, <<>>)
         IN  IF all_paths # <<>>
             THEN all_paths[ShortestIndex(all_paths, 1, 0, 0)]
             ELSE <<>>

GetAllPaths(start, end) ==
    /\ gop' = <<"get_all_paths", Some(start), Some(end),
                Some(get_all_paths(graph_dict, start, end, <<>>))>>
    /\ UNCHANGED <<edges, graph_dict, walkVars, notGraph>>

FindShortestPath(start, end) ==
    /\ gop' = <<"find_shortest_path", Some(start), Some(end),
                Some(find_shortest_path(graph_dict, start, end))>>
    /\ UNCHANGED <<edges, graph_dict, walkVars, notGraph>>

GraphNext ==
    \/ \E start \in Nodes, end \in Nodes : GetAllPaths(start, end)
    \/ \E start \in Nodes, end \in Nodes : FindShortestPath(start, end)

\* ------------------------------------- get_all_paths, one call at a time
\* edges that close cycles in routes: Paris -> Dubai -> Paris and
\* Mumbai -> ... -> New York -> Mumbai
cycleEdges ==
    << <<"Dubai", "Paris">>,
       <<"New York", "Mumbai">> >>

\* the edge lists with and without cycles: every list obtained from
\* routes + cycleEdges by leaving edges out
WalkEdgeLists ==
    {Pick(routes \o cycleEdges, S, 1) : S \in SUBSET (1..(Len(routes) + Len(cycleEdges)))}

\* the call get_all_paths(start, end, path) after "path = path + [start]",
\* about to test its base cases; i is the position of the for loop in
\* self.graph_dict[start] and the last component is temp_paths
NewFrame(start, path) == <<start, path \o <<start>>, 1, <<>>>>

\* a get_all_paths with a guard against nodes already on the path
FrameReturnsVisited(f, d, end) ==
    IF f[1] = end THEN TRUE
    ELSE IF f[1] \notin DOMAIN d THEN TRUE
    ELSE IF Len(d[f[1]]) = 0 THEN TRUE
    ELSE IF \E k \in 1..(Len(f[2]) - 1) : f[2][k] = f[1] THEN TRUE
    ELSE f[3] > Len(d[f[1]])

\* the call f is at one of its return statements: start == end, start not
\* in graph_dict, an empty adjacency list, or the for loop is over
FrameReturns(f, d, end) ==
    IF f[1] = end THEN TRUE
    ELSE IF f[1] \notin DOMAIN d THEN TRUE
    ELSE IF Len(d[f[1]]) = 0 THEN TRUE
    ELSE f[3] > Len(d[f[1]])

\* a call that returns its path when start is not in graph_dict
FrameValueAbsentPath(f, d, end) ==
    IF f[1] = end THEN <<f[2]>>
    ELSE IF f[1] \notin DOMAIN d THEN <<f[2]>>
    ELSE IF Len(d[f[1]]) = 0 THEN <<>>
    ELSE f[4]

\* the value the call f returns there
FrameValue(f, d, end) ==
    IF f[1] = end THEN <<f[2]>>
    ELSE IF f[1] \notin DOMAIN d THEN <<>>
    ELSE IF Len(d[f[1]]) = 0 THEN <<>>
    ELSE f[4]

\* the caller after "new_paths = self.get_all_paths(...)" returned v and the
\* inner loop added every path of v to temp_paths
Resume(f, v) == <<f[1], f[2], f[3] + 1, f[4] \o v>>

\* graph.get_all_paths(start, end) is called
WalkCall(start, end) ==
    /\ stack = <<>>
    /\ stack' = <<NewFrame(start, <<>>)>>
    /\ wcall' = <<start, end>>
    /\ wret' = None
    /\ UNCHANGED <<graphVars, notGraph>>

\* the innermost call makes its next recursive call
WalkDescend ==
    /\ stack # <<>>
    /\ Len(stack) < MaxDepth
    /\ LET f == stack[Len(stack)]
       IN  /\ ~FrameReturns(f, graph_dict, wcall[2])
           /\ stack' = Append(stack, NewFrame(graph_dict[f[1]][f[3]], f[2]))
    /\ UNCHANGED <<wcall, wret, graphVars, notGraph>>

\* the innermost call returns, to its caller or to the script
WalkReturn ==
    /\ stack # <<>>
    /\ LET f == stack[Len(stack)]
           v == FrameValue(f, graph_dict, wcall[2])
       IN  /\ FrameReturns(f, graph_dict, wcall[2])
           /\ IF Len(stack) = 1
              THEN /\ stack' = <<>>
                   /\ wret' = Some(v)
              ELSE /\ stack' = [SubSeq(stack, 1, Len(stack) - 1)
                                  EXCEPT ![Len(stack) - 1] = Resume(@, v)]
                   /\ UNCHANGED wret
    /\ UNCHANGED <<wcall, graphVars, notGraph>>

WalkNext ==
    \/ \E start \in Nodes, end \in Nodes : WalkCall(start, end)
    \/ WalkDescend
    \/ WalkReturn

\* ================================================================ HashMap
HKeys == (0 - 2)..MaxHKey
HVals == 1..MaxHVal
Sizes == 2..MaxSize

\* Python's hash of a small int: the int itself, except hash(-1), which is -2
Hash(key) == IF key = 0 - 1 THEN 0 - 2 ELSE key

\* HashMap._hash; Python's % with a positive modulus is never negative
hash_(key, sz) == Hash(key) % sz

\* Node(key, value)
HNode(key, value) == <<key, value>>

\* the walk "while current: ... current = current.next" over a chain: the
\* position of the first node from position i on whose key is k, 0 if none
RECURSIVE FindKey(_, _, _)
FindKey(chain, i, k) ==
    IF i > Len(chain) THEN 0
    ELSE IF chain[i][1] = k THEN i
    ELSE FindKey(chain, i + 1, k)

\* a put that never looks for the key and always prepends
PutChainPrepend(chain, key, value) == <<HNode(key, value)>> \o chain

\* a put that appends the new node at the tail of the chain
PutChainAppend(chain, key, value) ==
    IF FindKey(chain, 1, key) # 0
    THEN [chain EXCEPT ![FindKey(chain, 1, key)] = HNode(key, value)]
    ELSE chain \o <<HNode(key, value)>>

\* HashMap.put: the chain of the key's bucket after the call
PutChain(chain, key, value) ==
    LET pos == FindKey(chain, 1, key)
    IN  IF pos # 0
        THEN [chain EXCEPT ![pos] = HNode(chain[pos][1], value)]
        ELSE <<HNode(key, value)>> \o chain

\* a get that compares with the requested key
GetChainByKey(chain, key, index) ==
    IF FindKey(chain, 1, key) # 0
    THEN Some(chain[FindKey(chain, 1, key)][2])
    ELSE None

\* HashMap.get: the value returned from the chain of bucket index; the loop
\* tests "current.key == index"
GetChain(chain, key, index) ==
    LET pos == FindKey(chain, 1, index)
    IN  IF pos # 0 THEN Some(chain[pos][2]) ELSE None

\* an unlink that also drops the nodes behind position pos
UnlinkTail(chain, pos) == SubSeq(chain, 1, pos - 1)

\* the chain without its node at position pos
Unlink(chain, pos) == SubSeq(chain, 1, pos - 1) \o SubSeq(chain, pos + 1, Len(chain))

\* a remove that handles only a match at the head of the chain
RemoveChainHeadOnly(chain, key) ==
    IF chain # <<>> /\ chain[1][1] = key THEN Tail(chain) ELSE chain

\* HashMap.remove: the chain of the key's bucket after the call
RemoveChain(chain, key) ==
    LET pos == FindKey(chain, 1, key)
    IN  IF pos # 0 THEN Unlink(chain, pos) ELSE chain

\* HashMap.remove: the value returned
RemoveResult(chain, key) == FindKey(chain, 1, key) # 0

MapPut(key, value) ==
    /\ LET index == hash_(key, hsize)
       IN  /\ buckets' = [buckets EXCEPT ![index + 1] = PutChain(@, key, value)]
           /\ overwrote' = (overwrote \/ FindKey(buckets[index + 1], 1, key) # 0)
           /\ collided' = (collided \/ (buckets[index + 1] # <<>>
                                          /\ FindKey(buckets[index + 1], 1, key) = 0))
    /\ hlive' = hlive \cup {key}
    /\ hput' = [hput EXCEPT ![key] = Some(value)]
    /\ mop' = <<"put", Some(key), Some(value), buckets, None>>
    /\ UNCHANGED <<hsize, notMap>>

MapGet(key) ==
    /\ LET index == hash_(key, hsize)
       IN  mop' = <<"get", Some(key), None, buckets,
                   GetChain(buckets[index + 1], key, index)>>
    /\ UNCHANGED <<hsize, buckets, hlive, hput, overwrote, collided, notMap>>

MapRemove(key) ==
    /\ LET index == hash_(key, hsize)
       IN  /\ buckets' = [buckets EXCEPT ![index + 1] = RemoveChain(@, key)]
           /\ mop' = <<"remove", Some(key), None, buckets,
                       Some(RemoveResult(buckets[index + 1], key))>>
    /\ hlive' = hlive \ {key}
    /\ hput' = [hput EXCEPT ![key] = None]
    /\ UNCHANGED <<hsize, overwrote, collided, notMap>>

MapNext ==
    \/ \E key \in HKeys, value \in HVals : MapPut(key, value)
    \/ \E key \in HKeys : MapGet(key)
    \/ \E key \in HKeys : MapRemove(key)

\* ========================================================== binary_search
\* the module-level list and number
ls == <<11, 12, 13, 14, 15, 16, 17, 18, 19, 20>>
num_to_find == 17

\* the sequences over S of length at most n
SeqsUpTo(S, n) == UNION {[1..k -> S] : k \in 0..n}

\* the lists binary_search is called with: ascending lists, and ls
SortedLists ==
    {l \in SeqsUpTo(1..MaxElem, MaxLen) :
        \A i \in 1..(Len(l) - 1) : l[i] <= l[i + 1]} \cup {ls}

\* the numbers searched for
Nums == (0..(MaxElem + 1)) \cup {num_to_find}

\* mid = (start + end) // 2
Mid(start, end) == FloorDiv(start + end, 2)

\* a loop body that moves start to mid instead of mid + 1
SearchBodyNoAdvance(l, num, start, end) ==
    IF l[Mid(start, end) + 1] = num THEN <<start, end, Some(Mid(start, end))>>
    ELSE IF num < l[Mid(start, end) + 1] THEN <<start, Mid(start, end) - 1, None>>
    ELSE <<Mid(start, end), end, None>>

\* a loop body that compares the wrong way round
SearchBodyFlipped(l, num, start, end) ==
    IF l[Mid(start, end) + 1] = num THEN <<start, end, Some(Mid(start, end))>>
    ELSE IF num > l[Mid(start, end) + 1] THEN <<start, Mid(start, end) - 1, None>>
    ELSE <<Mid(start, end) + 1, end, None>>

\* one round of the while loop of binary_search: <<start, end, returned>>
SearchBody(l, num, start, end) ==
    LET mid == Mid(start, end)
    IN  IF l[mid + 1] = num THEN <<start, end, Some(mid)>>
        ELSE IF num < l[mid + 1] THEN <<start, mid - 1, None>>
        ELSE <<mid + 1, end, None>>

\* one round of "while start <= end"
SearchIter ==
    /\ bs_ret = None
    /\ bs_start <= bs_end
    /\ LET r == SearchBody(bs_ls, bs_num, bs_start, bs_end)
       IN  /\ bs_start' = r[1]
           /\ bs_end' = r[2]
           /\ bs_ret' = r[3]
    /\ UNCHANGED <<bs_ls, bs_num, notSearch>>

\* the loop is left: return -1
SearchExit ==
    /\ bs_ret = None
    /\ ~(bs_start <= bs_end)
    /\ bs_ret' = Some(0 - 1)
    /\ UNCHANGED <<bs_ls, bs_num, bs_start, bs_end, notSearch>>

SearchNext ==
    \/ SearchIter
    \/ SearchExit

\* ============================================ sliding_window_sum_subarray
\* an exception raised instead of a value returned
Raise(e) == <<"raise", e>>

\* the arrays and windows sliding_window_sum_subarray is called with
Arrays == SeqsUpTo((0 - MaxAbs)..MaxAbs, MaxArr)
Windows == (0 - 1)..(MaxArr + 1)

\* Python's max of two numbers
Max(a, b) == IF a >= b THEN a ELSE b

\* Python's arr[idx] is defined for -len(arr) <= idx < len(arr)
InRange(arr, idx) == 0 - Len(arr) <= idx /\ idx < Len(arr)

\* Python's arr[idx], a negative idx counting from the end
Elem(arr, idx) == IF idx >= 0 THEN arr[idx + 1] ELSE arr[Len(arr) + idx + 1]

\* a guard without its "window < 1" test
MalformedNoLower(arr, window) == window > Len(arr)

\* the guard of sliding_window_sum_subarray
Malformed(arr, window) == window < 1 \/ window > Len(arr)

\* the for loop of sliding_window_sum_subarray from index i on
RECURSIVE WindowLoop(_, _, _, _, _)
WindowLoop(arr, window, i, max_sum, window_sum) ==
    IF i >= Len(arr) THEN Some(max_sum)
    ELSE LET ws == window_sum + Elem(arr, i)
         IN  IF i >= window - 1
             THEN IF InRange(arr, i - window + 1)
                  THEN WindowLoop(arr, window, i + 1, Max(max_sum, ws),
                                  ws - Elem(arr, i - window + 1))
                  ELSE Raise("IndexError")
             ELSE WindowLoop(arr, window, i + 1, max_sum, ws)

\* Solution.sliding_window_sum_subarray
sliding_window_sum_subarray(arr, window) ==
    IF Malformed(arr, window) THEN Some(0)
    ELSE WindowLoop(arr, window, 0, 0, 0)

SlidingWindow(window) ==
    /\ sw_op' = <<Some(window), sliding_window_sum_subarray(sw_arr, window)>>
    /\ UNCHANGED <<sw_arr, notWindow>>

WindowNext == \E window \in Windows : SlidingWindow(window)

\* ======================================================= SingleLinkedList
\* the data stored in the nodes
ListData == 0..MaxData

\* Node(value): data = value, next = None
SNode(value) == <<value, 0>>

\* the walk "while curr.next: curr = curr.next": the node it ends on
RECURSIVE LastNode(_, _)
LastNode(nodes, curr) ==
    IF nodes[curr][2] = 0 THEN curr ELSE LastNode(nodes, nodes[curr][2])

\* SingleLinkedList.insert_at_end: <<nodes, head>> after the call
insert_at_end(nodes, head, data) ==
    LET new_node == Len(nodes) + 1
        created == Append(nodes, SNode(data))
    IN  IF head = 0
        THEN <<created, new_node>>
        ELSE <<[created EXCEPT ![LastNode(nodes, head)][2] = new_node], head>>

\* the module-level list: five insert_at_end calls on SingleLinkedList()
DemoData == <<"Hi", "Bye", "Nye", "Dye", "Fye">>

RECURSIVE BuildList(_, _)
BuildList(values, k) ==
    IF k = 0 THEN <<<<>>, 0>>
    ELSE LET l == BuildList(values, k - 1)
         IN  insert_at_end(l[1], l[2], values[k])

DemoList == BuildList(DemoData, Len(DemoData))

InsertAtEnd(data) ==
    /\ Len(sl_nodes) < MaxNodes
    /\ LET r == insert_at_end(sl_nodes, sl_head, data)
       IN  /\ sl_nodes' = r[1]
           /\ sl_head' = r[2]
    /\ sl_op' = <<"insert_at_end", Some(data), <<sl_nodes, sl_head>>, None>>
    /\ UNCHANGED notList

\* SingleLinkedList.delete_node_by_data: its first statement, "curr =
\* self.data", reads an attribute that no SingleLinkedList has (__init__
\* sets head only, the class defines methods only), so every call raises
\* AttributeError before anything is read or written; the later statements
\* ("self.head = curr", "59", "curr.next = temp2") are never reached
DeleteNodeByData(data) ==
    /\ sl_op' = <<"delete_node_by_data", Some(data), <<sl_nodes, sl_head>>,
                  Raise("AttributeError")>>
    /\ UNCHANGED <<sl_nodes, sl_head, notList>>

ListNext ==
    \/ \E data \in ListData : InsertAtEnd(data)
    \/ \E data \in ListData : DeleteNodeByData(data)

\* ======================================================= DoublyLinkedList
\* DNode(data): next = None, prev = None
DNode(data) == <<data, 0, 0>>

\* DoublyLinkedList.insert_at_end: <<nodes, head>> after the call
d_insert_at_end(nodes, head, data) ==
    LET new_node == Len(nodes) + 1
        created == Append(nodes, DNode(data))
        curr == LastNode(nodes, head)
    IN  IF head = 0
        THEN <<created, new_node>>
        ELSE <<[created EXCEPT ![curr][2] = new_node, ![new_node][3] = curr], head>>

\* an insert_at_start that does not set the prev of the old head
insert_at_start_no_prev(nodes, head, data) ==
    <<Append(nodes, <<data, head, 0>>), Len(nodes) + 1>>

\* DoublyLinkedList.insert_at_start: <<nodes, head>> after the call
insert_at_start(nodes, head, data) ==
    LET new_node == Len(nodes) + 1
        created == Append(nodes, DNode(data))
    IN  IF head # 0
        THEN <<[created EXCEPT ![head][3] = new_node, ![new_node][2] = head], new_node>>
        ELSE <<created, new_node>>

DInsertAtEnd(data) ==
    /\ Len(dl_nodes) < MaxNodes
    /\ LET r == d_insert_at_end(dl_nodes, dl_head, data)
       IN  /\ dl_nodes' = r[1]
           /\ dl_head' = r[2]
    /\ dl_ends' = Append(dl_ends, data)
    /\ dl_op' = <<"insert_at_end", Some(data), <<dl_nodes, dl_head>>, None>>
    /\ UNCHANGED <<dl_starts, notDList>>

DInsertAtStart(data) ==
    /\ Len(dl_nodes) < MaxNodes
    /\ LET r == insert_at_start(dl_nodes, dl_head, data)
       IN  /\ dl_nodes' = r[1]
           /\ dl_head' = r[2]
    /\ dl_starts' = Append(dl_starts, data)
    /\ dl_op' = <<"insert_at_start", Some(data), <<dl_nodes, dl_head>>, None>>
    /\ UNCHANGED <<dl_ends, notDList>>

\* DoublyLinkedList.delete_node_by_data: its first statement, "curr =
\* self.data", reads an attribute that no DoublyLinkedList has (__init__
\* sets head only), so every call raises AttributeError before any node is
\* read or relinked; lines 124-134 are never reached
DDeleteNodeByData(data) ==
    /\ dl_op' = <<"delete_node_by_data", Some(data), <<dl_nodes, dl_head>>,
                  Raise("AttributeError")>>
    /\ UNCHANGED <<dl_nodes, dl_head, dl_starts, dl_ends, notDList>>

DListNext ==
    \/ \E data \in ListData : DInsertAtEnd(data)
    \/ \E data \in ListData : DInsertAtStart(data)
    \/ \E data \in ListData : DDeleteNodeByData(data)

\* ================================================ check_single_list_cycle
\* the node structures check_single_list_cycle is called on: every node has
\* a next field that is None (0) or any node, itself included
CycleNodes == 1..MaxCycleNodes
Structures == [CycleNodes -> 0..MaxCycleNodes]

\* a loop body that moves fast by one node only
CycleBodySameSpeed(next, slow, fast) == <<next[slow], next[fast]>>

\* "slow = slow.next; fast = fast.next.next": <<slow, fast>> after them
CycleBody(next, slow, fast) == <<next[slow], next[next[fast]]>>

\* one round of "while fast and fast.next"
CycleIter ==
    /\ cy_ret = None
    /\ cy_fast # 0
    /\ cy_next[cy_fast] # 0
    /\ IF cy_slow = 0
       THEN /\ cy_ret' = Raise("AttributeError")
            /\ UNCHANGED <<cy_slow, cy_fast>>
       ELSE LET r == CycleBody(cy_next, cy_slow, cy_fast)
            IN  /\ cy_slow' = r[1]
                /\ cy_fast' = r[2]
                /\ cy_ret' = IF r[1] = r[2] THEN Some(TRUE) ELSE None
    /\ UNCHANGED <<cy_next, cy_head, notCycle>>

\* the loop is left: return False
CycleExit ==
    /\ cy_ret = None
    /\ ~(cy_fast # 0 /\ cy_next[cy_fast] # 0)
    /\ cy_ret' = Some(FALSE)
    /\ UNCHANGED <<cy_next, cy_head, cy_slow, cy_fast, notCycle>>

CycleNext ==
    \/ CycleIter
    \/ CycleExit

\* ========================================================= CirclularQueue
Capacities == 1..MaxCap
Items == 0..MaxItem

\* a string returned as a value
Str(s) == <<"str", s>>

\* CirclularQueue.is_empty, is_full and size: the body of each is "pass",
\* so each call returns None whatever the queue holds
is_empty == None
is_full == None
size_ == None

\* the truth value "if" gives such a result: None is false
IfTrue(v) == v = Some(TRUE)

\* CirclularQueue.enqueue.  front and rear are assigned before
\* "self.queue[self.rear] = data", which raises IndexError unless the list
\* has an element at that index
Enqueue(data) ==
    /\ Len(cq_enq) < MaxCalls
    /\ IF IfTrue(is_full)
       THEN /\ cq_op' = <<"enqueue", Some(data), <<cq_queue, cq_front, cq_rear>>,
                          Str("Queue is full!")>>
            /\ UNCHANGED <<cq_queue, cq_front, cq_rear, cq_enq>>
       ELSE /\ cq_front' = IF IfTrue(is_empty)
                           THEN 0 ELSE cq_front
            /\ cq_rear' = (cq_rear + 1) % cq_capacity
            /\ cq_enq' = Append(cq_enq, data)
            /\ IF InRange(cq_queue, cq_rear')
               THEN /\ cq_queue' = [cq_queue EXCEPT
                                      ![IF cq_rear' >= 0 THEN cq_rear' + 1
                                        ELSE Len(cq_queue) + cq_rear' + 1] = Some(data)]
                    /\ cq_op' = <<"enqueue", Some(data),
                                  <<cq_queue, cq_front, cq_rear>>, None>>
               ELSE /\ cq_queue' = cq_queue
                    /\ cq_op' = <<"enqueue", Some(data),
                                  <<cq_queue, cq_front, cq_rear>>, Raise("IndexError")>>
    /\ UNCHANGED <<cq_capacity, cq_deq, notQueue>>

\* CirclularQueue.dequeue.  "removed = self.queue[self.front]" raises
\* IndexError unless the list has an element at that index
Dequeue ==
    /\ IF IfTrue(is_empty)
       THEN /\ cq_op' = <<"dequeue", None, <<cq_queue, cq_front, cq_rear>>,
                          Str("Queue is empty!")>>
            /\ UNCHANGED <<cq_queue, cq_front, cq_rear, cq_deq>>
       ELSE IF ~InRange(cq_queue, cq_front)
       THEN /\ cq_op' = <<"dequeue", None, <<cq_queue, cq_front, cq_rear>>,
                          Raise("IndexError")>>
            /\ UNCHANGED <<cq_queue, cq_front, cq_rear, cq_deq>>
       ELSE /\ cq_queue' = [cq_queue EXCEPT
                              ![IF cq_front >= 0 THEN cq_front + 1
                                ELSE Len(cq_queue) + cq_front + 1] = None]
            /\ IF cq_front = cq_rear
               THEN cq_front' = 0 - 1 /\ cq_rear' = 0 - 1
               ELSE cq_front' = (cq_front + 1) % cq_capacity /\ cq_rear' = cq_rear
            /\ cq_deq' = Append(cq_deq, Elem(cq_queue, cq_front))
            /\ cq_op' = <<"dequeue", None, <<cq_queue, cq_front, cq_rear>>,
                          Elem(cq_queue, cq_front)>>
    /\ UNCHANGED <<cq_capacity, cq_enq, notQueue>>

\* CirclularQueue.peek
Peek ==
    /\ cq_op' = <<"peek", None, <<cq_queue, cq_front, cq_rear>>,
                  IF IfTrue(is_empty)
                  THEN Str("Queue is empty!")
                  ELSE IF InRange(cq_queue, cq_front) THEN Elem(cq_queue, cq_front)
                  ELSE Raise("IndexError")>>
    /\ UNCHANGED <<cq_capacity, cq_queue, cq_front, cq_rear, cq_enq, cq_deq, notQueue>>

QueueNext ==
    \/ \E data \in Items : Enqueue(data)
    \/ Dequeue
    \/ Peek

\* =========================================================== searchInsert
\* the arrays searchInsert is called with: strictly ascending, and the empty
\* one; and the targets
AscendingLists ==
    {l \in SeqsUpTo(1..(MaxElem + 2), MaxLen) :
        \A i \in 1..(Len(l) - 1) : l[i] < l[i + 1]}
Targets == 0..(MaxElem + 3)

\* Python's abs
Abs(x) == IF x < 0 THEN 0 - x ELSE x

\* Solution.searchInsert2: the while loop from <<left, right>> on
RECURSIVE Insert2Loop(_, _, _, _)
Insert2Loop(nums, target, left, right) ==
    IF ~(left < right) THEN Some(left)
    ELSE LET mid == FloorDiv(left + right, 2)
         IN  IF nums[mid + 1] >= target
             THEN Insert2Loop(nums, target, left, mid)
             ELSE Insert2Loop(nums, target, mid + 1, right)

\* Solution.searchInsert2
searchInsert2(nums, target) == Insert2Loop(nums, target, 0, Len(nums))

\* a plain binary search: the loop without the tests of lines 65-85
RECURSIVE InsertLoopPlain(_, _, _, _)
InsertLoopPlain(nums, target, start, end) ==
    IF ~(start <= end) THEN Some(0 - 1)
    ELSE IF Elem(nums, FloorDiv(start + end, 2)) = target
    THEN Some(FloorDiv(start + end, 2))
    ELSE IF target < Elem(nums, FloorDiv(start + end, 2))
    THEN InsertLoopPlain(nums, target, start, FloorDiv(start + end, 2) - 1)
    ELSE InsertLoopPlain(nums, target, FloorDiv(start + end, 2) + 1, end)

\* Solution.searchInsert: the while loop from <<start, end>> on.  s and e
\* are start and end after lines 58-63; a subscript outside the list raises
\* IndexError, a negative one inside it counts from the end of the list
RECURSIVE InsertLoop(_, _, _, _)
InsertLoop(nums, target, start, end) ==
    IF ~(start <= end) THEN Some(0 - 1)
    ELSE
    LET mid == FloorDiv(start + end, 2)
    IN  IF ~InRange(nums, mid) THEN Raise("IndexError")
        ELSE IF Elem(nums, mid) = target THEN Some(mid)
        ELSE
        LET s == IF target < Elem(nums, mid) THEN start ELSE mid + 1
            e == IF target < Elem(nums, mid) THEN mid - 1 ELSE end
            \* lines 73-85
            line73 ==
                IF Abs(s - e) = 1
                THEN IF ~InRange(nums, s) THEN Raise("IndexError")
                     ELSE IF target = Elem(nums, s) THEN Some(s)
                     ELSE IF ~InRange(nums, e) THEN Raise("IndexError")
                     ELSE IF target = Elem(nums, e) THEN Some(e)
                     ELSE IF target > Elem(nums, s) /\ target < Elem(nums, e)
                     THEN Some(s + 1)
                     ELSE IF target < Elem(nums, s) THEN Some(s)
                     ELSE Some(e + 1)
                ELSE InsertLoop(nums, target, s, e)
            \* lines 69-71
            line69 ==
                IF Abs(s - mid) = 1 /\ target < Elem(nums, mid)
                THEN IF ~InRange(nums, s) THEN Raise("IndexError")
                     ELSE IF target > Elem(nums, s) THEN Some(mid)
                     ELSE line73
                ELSE line73
        \* lines 65-67
        IN  IF Abs(mid - e) = 1 /\ target > Elem(nums, mid)
            THEN IF ~InRange(nums, e) THEN Raise("IndexError")
                 ELSE IF target < Elem(nums, e) THEN Some(mid + 1)
                 ELSE line69
            ELSE line69

\* Solution.searchInsert
searchInsert(nums, target) ==
    IF ~InRange(nums, 0) THEN Raise("IndexError")
    ELSE IF target < Elem(nums, 0) THEN Some(0)
    ELSE IF target > Elem(nums, Len(nums) - 1) THEN Some(Len(nums) - 1 + 1)
    ELSE InsertLoop(nums, target, 0, Len(nums) - 1)

SearchInsert ==
    /\ si_ret = None
    /\ si_ret' = searchInsert(si_nums, si_target)
    /\ UNCHANGED <<si_nums, si_target, si_ret2, notInsert>>

SearchInsert2 ==
    /\ si_ret2 = None
    /\ si_ret2' = searchInsert2(si_nums, si_target)
    /\ UNCHANGED <<si_nums, si_target, si_ret, notInsert>>

InsertNext ==
    \/ SearchInsert
    \/ SearchInsert2

\* ========================================================== addTwoNumbers
\* the digits a node may hold (0 <= Node.val <= 9)
Digits == 0..9

\* the lists of the module-level demo and of the examples of the docstring
DemoL1 == <<2, 4, 3>>
DemoL2 == <<5, 6, 4>>
LongL1 == <<9, 9, 9, 9, 9, 9, 9>>
LongL2 == <<9, 9, 9, 9>>

\* the non-empty digit lists addTwoNumbers is called with
DigitLists ==
    (SeqsUpTo(Digits, MaxDigits) \ {<<>>}) \cup {DemoL1, DemoL2, LongL1, LongL2}

\* ListNode(val, next)
ListNode(val, next) == <<val, next>>

\* list_to_nodes, the nodes for ls[k..] appended to nodes: the node for
\* ls[k] is created first and those behind it are linked to it in turn
RECURSIVE LinkFrom(_, _, _)
LinkFrom(nodes, digits, k) ==
    IF k > Len(digits) THEN nodes
    ELSE LinkFrom(Append(nodes, ListNode(digits[k],
                                         IF k < Len(digits) THEN Len(nodes) + 2 ELSE 0)),
                  digits, k + 1)

\* list_to_nodes(ls) with the nodes that exist: <<nodes, head>>
list_to_nodes(nodes, digits) == <<LinkFrom(nodes, digits, 1), Len(nodes) + 1>>

\* the nodes once ls1 = list_to_nodes(d1) and ls2 = list_to_nodes(d2) have run
TwoLists(d1, d2) == list_to_nodes(list_to_nodes(<<>>, d1)[1], d2)[1]

\* the while loop of addTwoNumbers (lines 108-112): every round creates a
\* node that only the local name curr_node refers to, and then sets
\* curr_node to that node's next, None; <<nodes, l1, l2, curr_node>> after it
RECURSIVE AddLoop(_, _, _, _)
AddLoop(nodes, l1, l2, curr_node) ==
    IF l1 # 0 /\ l2 # 0
    THEN LET created == Append(nodes, ListNode(nodes[l1][1] + nodes[l2][1], 0))
         IN  AddLoop(created, nodes[l1][2], nodes[l2][2], created[Len(created)][2])
    ELSE <<nodes, l1, l2, curr_node>>

\* Solution.addTwoNumbers: <<nodes, returned node>>.  Lines 113-116 assign
\* the local name curr_node only, so no node's next is ever written, and
\* head_node is returned with the next = None it was created with
addTwoNumbers(nodes, l1, l2) ==
    IF l1 = 0 /\ l2 = 0 THEN <<nodes, 0>>
    ELSE IF l1 = 0 THEN <<nodes, l2>>
    ELSE IF l2 = 0 THEN <<nodes, l1>>
    ELSE LET created == Append(nodes, ListNode(nodes[l1][1] + nodes[l2][1], 0))
             head_node == Len(created)
             loop == AddLoop(created, nodes[l1][2], nodes[l2][2], created[head_node][2])
             curr_node == IF loop[2] = 0 \/ loop[3] = 0 THEN loop[3] ELSE loop[4]
         IN  <<loop[1], head_node>>

AddTwoNumbers ==
    /\ at_ret = None
    /\ LET r == addTwoNumbers(at_heap, at_l1, at_l2)
       IN  /\ at_heap' = r[1]
           /\ at_ret' = Some(r[2])
    /\ UNCHANGED <<at_l1, at_l2, notAdd>>

AddNext == AddTwoNumbers

\* ============================================================= merge_sort
\* the module-level list of sorting.py
sort_ls == <<99, 98, 97, 96, 95, 94, 93, 92, 91, 90>>

\* the lists merge_sort is called with
SortInputs == SeqsUpTo((0 - 1)..MaxSortVal, MaxSort) \cup {sort_ls}

\* the lists merge is called with: in non-decreasing order
MergeInputs ==
    {l \in SeqsUpTo((0 - 1)..MaxSortVal, MaxArr) :
        \A i \in 1..(Len(l) - 1) : l[i] <= l[i + 1]}

\* Python's l[i:] for 0 <= i
SliceFrom(l, i) == SubSeq(l, i + 1, Len(l))

\* Python's l[:i] for 0 <= i
SliceTo(l, i) == SubSeq(l, 1, IF i < Len(l) THEN i ELSE Len(l))

\* a merge loop that forgets what is left of right
RECURSIVE MergeLoopNoRest(_, _, _, _, _)
MergeLoopNoRest(left, right, i, j, merged_list) ==
    IF i < Len(left) /\ j < Len(right)
    THEN IF left[i + 1] < right[j + 1]
         THEN MergeLoopNoRest(left, right, i + 1, j, Append(merged_list, left[i + 1]))
         ELSE MergeLoopNoRest(left, right, i, j + 1, Append(merged_list, right[j + 1]))
    ELSE merged_list \o SliceFrom(left, i)

\* merge: the while loop from <<i, j>> on and the two extend calls
RECURSIVE MergeLoop(_, _, _, _, _)
MergeLoop(left, right, i, j, merged_list) ==
    IF i < Len(left) /\ j < Len(right)
    THEN IF left[i + 1] < right[j + 1]
         THEN MergeLoop(left, right, i + 1, j, Append(merged_list, left[i + 1]))
         ELSE MergeLoop(left, right, i, j + 1, Append(merged_list, right[j + 1]))
    ELSE (merged_list \o SliceFrom(left, i)) \o SliceFrom(right, j)

\* merge
merge(left, right) == MergeLoop(left, right, 0, 0, <<>>)

\* merge_sort
RECURSIVE merge_sort(_)
merge_sort(arr) ==
    IF Len(arr) <= 1 THEN arr
    ELSE LET mid_arr_index == FloorDiv(Len(arr), 2)
             left_arr == merge_sort(SliceFrom(arr, mid_arr_index))
             right_arr == merge_sort(SliceTo(arr, mid_arr_index))
         IN  merge(left_arr, right_arr)

\* the call merge_sort(arr); no statement of merge_sort or merge assigns to
\* an element of an argument, so the arguments stay as they are
MergeSort ==
    /\ ms_fn = "merge_sort"
    /\ ms_ret = None
    /\ ms_ret' = Some(merge_sort(ms_args[1]))
    /\ UNCHANGED <<ms_fn, ms_args, notSort>>

\* the call merge(left, right)
Merge ==
    /\ ms_fn = "merge"
    /\ ms_ret = None
    /\ ms_ret' = Some(merge(ms_args[1], ms_args[2]))
    /\ UNCHANGED <<ms_fn, ms_args, notSort>>

SortNext ==
    \/ MergeSort
    \/ Merge

\* ========================================================= specifications
\* The scripts are independent programs.  Each specification runs one of
\* them; the objects of the others stay as their scripts construct them at
\* module level: h = MinHeap(), bst = BST(21), graph = Graph(routes),
\* binary_search(ls, num_to_find) about to start, arr = [], the
\* SingleLinkedList of five strings, ls1 and ls2 with addTwoNumbers about
\* to be called, merge_sort about to be called on the list of sorting.py;
\* 5._hash_map.py constructs no HashMap,
\* and a HashMap(1) stands for it; check_single_list_cycle is not called;
\* 4.1_queue_.py constructs no queue, and a CirclularQueue(1) stands for
\* it; 3._linked_list.py constructs no DoublyLinkedList, and an empty one
\* stands for it.

\* the root value of the module-level bst = BST(21)
DemoRoot == 21

\* MinHeap alone: h = MinHeap()
InitHeap ==
    /\ heap = <<>>
    /\ ins = <<>>
    /\ outs = <<>>
    /\ interleaved = FALSE
    /\ hop = <<"init", None, <<>>, None>>
    /\ rootData = DemoRoot
    /\ tree = Node(DemoRoot)
    /\ inserted = {}
    /\ bop = <<"init", Some(DemoRoot), <<>>, None>>
    /\ edges = routes
    /\ graph_dict = BuildGraph(routes, 1, EmptyDict)
    /\ gop = <<"init", None, None, None>>
    /\ stack = <<>>
    /\ wcall = <<None, None>>
    /\ wret = None
    /\ hsize = 1
    /\ buckets = [i \in 1..1 |-> <<>>]
    /\ hlive = {}
    /\ hput = [k \in HKeys |-> None]
    /\ overwrote = FALSE
    /\ collided = FALSE
    /\ mop = <<"init", None, None, <<>>, None>>
    /\ bs_ls = ls
    /\ bs_num = num_to_find
    /\ bs_start = 0
    /\ bs_end = Len(ls) - 1
    /\ bs_ret = None
    /\ sw_arr = <<>>
    /\ sw_op = <<None, None>>
    /\ sl_nodes = DemoList[1]
    /\ sl_head = DemoList[2]
    /\ sl_op = <<"init", None, <<<<>>, 0>>, None>>
    /\ cy_next = [n \in CycleNodes |-> 0]
    /\ cy_head = 0
    /\ cy_slow = 0
    /\ cy_fast = 0
    /\ cy_ret = None
    /\ cq_capacity = 1
    /\ cq_queue = <<>>
    /\ cq_front = 0 - 1
    /\ cq_rear = 0 - 1
    /\ cq_enq = <<>>
    /\ cq_deq = <<>>
    /\ cq_op = <<"init", None, <<<<>>, 0 - 1, 0 - 1>>, None>>
    /\ si_nums = <<>>
    /\ si_target = 0
    /\ si_ret = None
    /\ si_ret2 = None
    /\ at_heap = TwoLists(DemoL1, DemoL2)
    /\ at_l1 = 1
    /\ at_l2 = Len(DemoL1) + 1
    /\ at_ret = None
    /\ ms_fn = "merge_sort"
    /\ ms_args = <<sort_ls>>
    /\ ms_ret = None
    /\ dl_nodes = <<>>
    /\ dl_head = 0
    /\ dl_starts = <<>>
    /\ dl_ends = <<>>
    /\ dl_op = <<"init", None, <<<<>>, 0>>, None>>

SpecHeap == InitHeap /\ [][HeapNext]_vars

\* BST alone: BST(data) for any root value
InitBST ==
    /\ heap = <<>>
    /\ ins = <<>>
    /\ outs = <<>>
    /\ interleaved = FALSE
    /\ hop = <<"init", None, <<>>, None>>
    /\ rootData \in Vals
    /\ tree = Node(rootData)
    /\ inserted = {}
    /\ bop = <<"init", Some(rootData), <<>>, None>>
    /\ edges = routes
    /\ graph_dict = BuildGraph(routes, 1, EmptyDict)
    /\ gop = <<"init", None, None, None>>
    /\ stack = <<>>
    /\ wcall = <<None, None>>
    /\ wret = None
    /\ hsize = 1
    /\ buckets = [i \in 1..1 |-> <<>>]
    /\ hlive = {}
    /\ hput = [k \in HKeys |-> None]
    /\ overwrote = FALSE
    /\ collided = FALSE
    /\ mop = <<"init", None, None, <<>>, None>>
    /\ bs_ls = ls
    /\ bs_num = num_to_find
    /\ bs_start = 0
    /\ bs_end = Len(ls) - 1
    /\ bs_ret = None
    /\ sw_arr = <<>>
    /\ sw_op = <<None, None>>
    /\ sl_nodes = DemoList[1]
    /\ sl_head = DemoList[2]
    /\ sl_op = <<"init", None, <<<<>>, 0>>, None>>
    /\ cy_next = [n \in CycleNodes |-> 0]
    /\ cy_head = 0
    /\ cy_slow = 0
    /\ cy_fast = 0
    /\ cy_ret = None
    /\ cq_capacity = 1
    /\ cq_queue = <<>>
    /\ cq_front = 0 - 1
    /\ cq_rear = 0 - 1
    /\ cq_enq = <<>>
    /\ cq_deq = <<>>
    /\ cq_op = <<"init", None, <<<<>>, 0 - 1, 0 - 1>>, None>>
    /\ si_nums = <<>>
    /\ si_target = 0
    /\ si_ret = None
    /\ si_ret2 = None
    /\ at_heap = TwoLists(DemoL1, DemoL2)
    /\ at_l1 = 1
    /\ at_l2 = Len(DemoL1) + 1
    /\ at_ret = None
    /\ ms_fn = "merge_sort"
    /\ ms_args = <<sort_ls>>
    /\ ms_ret = None
    /\ dl_nodes = <<>>
    /\ dl_head = 0
    /\ dl_starts = <<>>
    /\ dl_ends = <<>>
    /\ dl_op = <<"init", None, <<<<>>, 0>>, None>>

SpecBST == InitBST /\ [][BSTNext]_vars

\* Graph alone: Graph(edges) for any of the edge lists
InitGraph ==
    /\ heap = <<>>
    /\ ins = <<>>
    /\ outs = <<>>
    /\ interleaved = FALSE
    /\ hop = <<"init", None, <<>>, None>>
    /\ rootData = DemoRoot
    /\ tree = Node(DemoRoot)
    /\ inserted = {}
    /\ bop = <<"init", Some(DemoRoot), <<>>, None>>
    /\ edges \in EdgeLists
    /\ graph_dict = BuildGraph(edges, 1, EmptyDict)
    /\ gop = <<"init", None, None, None>>
    /\ stack = <<>>
    /\ wcall = <<None, None>>
    /\ wret = None
    /\ hsize = 1
    /\ buckets = [i \in 1..1 |-> <<>>]
    /\ hlive = {}
    /\ hput = [k \in HKeys |-> None]
    /\ overwrote = FALSE
    /\ collided = FALSE
    /\ mop = <<"init", None, None, <<>>, None>>
    /\ bs_ls = ls
    /\ bs_num = num_to_find
    /\ bs_start = 0
    /\ bs_end = Len(ls) - 1
    /\ bs_ret = None
    /\ sw_arr = <<>>
    /\ sw_op = <<None, None>>
    /\ sl_nodes = DemoList[1]
    /\ sl_head = DemoList[2]
    /\ sl_op = <<"init", None, <<<<>>, 0>>, None>>
    /\ cy_next = [n \in CycleNodes |-> 0]
    /\ cy_head = 0
    /\ cy_slow = 0
    /\ cy_fast = 0
    /\ cy_ret = None
    /\ cq_capacity = 1
    /\ cq_queue = <<>>
    /\ cq_front = 0 - 1
    /\ cq_rear = 0 - 1
    /\ cq_enq = <<>>
    /\ cq_deq = <<>>
    /\ cq_op = <<"init", None, <<<<>>, 0 - 1, 0 - 1>>, None>>
    /\ si_nums = <<>>
    /\ si_target = 0
    /\ si_ret = None
    /\ si_ret2 = None
    /\ at_heap = TwoLists(DemoL1, DemoL2)
    /\ at_l1 = 1
    /\ at_l2 = Len(DemoL1) + 1
    /\ at_ret = None
    /\ ms_fn = "merge_sort"
    /\ ms_args = <<sort_ls>>
    /\ ms_ret = None
    /\ dl_nodes = <<>>
    /\ dl_head = 0
    /\ dl_starts = <<>>
    /\ dl_ends = <<>>
    /\ dl_op = <<"init", None, <<<<>>, 0>>, None>>

SpecGraph == InitGraph /\ [][GraphNext]_vars

\* Graph alone, get_all_paths followed call by call, on edge lists with and
\* without cycles
InitWalk ==
    /\ heap = <<>>
    /\ ins = <<>>
    /\ outs = <<>>
    /\ interleaved = FALSE
    /\ hop = <<"init", None, <<>>, None>>
    /\ rootData = DemoRoot
    /\ tree = Node(DemoRoot)
    /\ inserted = {}
    /\ bop = <<"init", Some(DemoRoot), <<>>, None>>
    /\ edges \in WalkEdgeLists
    /\ graph_dict = BuildGraph(edges, 1, EmptyDict)
    /\ gop = <<"init", None, None, None>>
    /\ stack = <<>>
    /\ wcall = <<None, None>>
    /\ wret = None
    /\ hsize = 1
    /\ buckets = [i \in 1..1 |-> <<>>]
    /\ hlive = {}
    /\ hput = [k \in HKeys |-> None]
    /\ overwrote = FALSE
    /\ collided = FALSE
    /\ mop = <<"init", None, None, <<>>, None>>
    /\ bs_ls = ls
    /\ bs_num = num_to_find
    /\ bs_start = 0
    /\ bs_end = Len(ls) - 1
    /\ bs_ret = None
    /\ sw_arr = <<>>
    /\ sw_op = <<None, None>>
    /\ sl_nodes = DemoList[1]
    /\ sl_head = DemoList[2]
    /\ sl_op = <<"init", None, <<<<>>, 0>>, None>>
    /\ cy_next = [n \in CycleNodes |-> 0]
    /\ cy_head = 0
    /\ cy_slow = 0
    /\ cy_fast = 0
    /\ cy_ret = None
    /\ cq_capacity = 1
    /\ cq_queue = <<>>
    /\ cq_front = 0 - 1
    /\ cq_rear = 0 - 1
    /\ cq_enq = <<>>
    /\ cq_deq = <<>>
    /\ cq_op = <<"init", None, <<<<>>, 0 - 1, 0 - 1>>, None>>
    /\ si_nums = <<>>
    /\ si_target = 0
    /\ si_ret = None
    /\ si_ret2 = None
    /\ at_heap = TwoLists(DemoL1, DemoL2)
    /\ at_l1 = 1
    /\ at_l2 = Len(DemoL1) + 1
    /\ at_ret = None
    /\ ms_fn = "merge_sort"
    /\ ms_args = <<sort_ls>>
    /\ ms_ret = None
    /\ dl_nodes = <<>>
    /\ dl_head = 0
    /\ dl_starts = <<>>
    /\ dl_ends = <<>>
    /\ dl_op = <<"init", None, <<<<>>, 0>>, None>>

SpecWalk == InitWalk /\ [][WalkNext]_vars

\* the interpreter keeps running a call of get_all_paths that can go on
SpecWalkFair == SpecWalk /\ WF_vars(WalkDescend \/ WalkReturn)

\* HashMap alone: HashMap(size)
InitMap ==
    /\ heap = <<>>
    /\ ins = <<>>
    /\ outs = <<>>
    /\ interleaved = FALSE
    /\ hop = <<"init", None, <<>>, None>>
    /\ rootData = DemoRoot
    /\ tree = Node(DemoRoot)
    /\ inserted = {}
    /\ bop = <<"init", Some(DemoRoot), <<>>, None>>
    /\ edges = routes
    /\ graph_dict = BuildGraph(routes, 1, EmptyDict)
    /\ gop = <<"init", None, None, None>>
    /\ stack = <<>>
    /\ wcall = <<None, None>>
    /\ wret = None
    /\ hsize \in Sizes
    /\ buckets = [i \in 1..hsize |-> <<>>]
    /\ hlive = {}
    /\ hput = [k \in HKeys |-> None]
    /\ overwrote = FALSE
    /\ collided = FALSE
    /\ mop = <<"init", None, None, <<>>, None>>
    /\ bs_ls = ls
    /\ bs_num = num_to_find
    /\ bs_start = 0
    /\ bs_end = Len(ls) - 1
    /\ bs_ret = None
    /\ sw_arr = <<>>
    /\ sw_op = <<None, None>>
    /\ sl_nodes = DemoList[1]
    /\ sl_head = DemoList[2]
    /\ sl_op = <<"init", None, <<<<>>, 0>>, None>>
    /\ cy_next = [n \in CycleNodes |-> 0]
    /\ cy_head = 0
    /\ cy_slow = 0
    /\ cy_fast = 0
    /\ cy_ret = None
    /\ cq_capacity = 1
    /\ cq_queue = <<>>
    /\ cq_front = 0 - 1
    /\ cq_rear = 0 - 1
    /\ cq_enq = <<>>
    /\ cq_deq = <<>>
    /\ cq_op = <<"init", None, <<<<>>, 0 - 1, 0 - 1>>, None>>
    /\ si_nums = <<>>
    /\ si_target = 0
    /\ si_ret = None
    /\ si_ret2 = None
    /\ at_heap = TwoLists(DemoL1, DemoL2)
    /\ at_l1 = 1
    /\ at_l2 = Len(DemoL1) + 1
    /\ at_ret = None
    /\ ms_fn = "merge_sort"
    /\ ms_args = <<sort_ls>>
    /\ ms_ret = None
    /\ dl_nodes = <<>>
    /\ dl_head = 0
    /\ dl_starts = <<>>
    /\ dl_ends = <<>>
    /\ dl_op = <<"init", None, <<<<>>, 0>>, None>>

SpecMap == InitMap /\ [][MapNext]_vars

\* binary_search alone: one call binary_search(ls, num), just entered
InitSearch ==
    /\ heap = <<>>
    /\ ins = <<>>
    /\ outs = <<>>
    /\ interleaved = FALSE
    /\ hop = <<"init", None, <<>>, None>>
    /\ rootData = DemoRoot
    /\ tree = Node(DemoRoot)
    /\ inserted = {}
    /\ bop = <<"init", Some(DemoRoot), <<>>, None>>
    /\ edges = routes
    /\ graph_dict = BuildGraph(routes, 1, EmptyDict)
    /\ gop = <<"init", None, None, None>>
    /\ stack = <<>>
    /\ wcall = <<None, None>>
    /\ wret = None
    /\ hsize = 1
    /\ buckets = [i \in 1..1 |-> <<>>]
    /\ hlive = {}
    /\ hput = [k \in HKeys |-> None]
    /\ overwrote = FALSE
    /\ collided = FALSE
    /\ mop = <<"init", None, None, <<>>, None>>
    /\ bs_ls \in SortedLists
    /\ bs_num \in Nums
    /\ bs_start = 0
    /\ bs_end = Len(bs_ls) - 1
    /\ bs_ret = None
    /\ sw_arr = <<>>
    /\ sw_op = <<None, None>>
    /\ sl_nodes = DemoList[1]
    /\ sl_head = DemoList[2]
    /\ sl_op = <<"init", None, <<<<>>, 0>>, None>>
    /\ cy_next = [n \in CycleNodes |-> 0]
    /\ cy_head = 0
    /\ cy_slow = 0
    /\ cy_fast = 0
    /\ cy_ret = None
    /\ cq_capacity = 1
    /\ cq_queue = <<>>
    /\ cq_front = 0 - 1
    /\ cq_rear = 0 - 1
    /\ cq_enq = <<>>
    /\ cq_deq = <<>>
    /\ cq_op = <<"init", None, <<<<>>, 0 - 1, 0 - 1>>, None>>
    /\ si_nums = <<>>
    /\ si_target = 0
    /\ si_ret = None
    /\ si_ret2 = None
    /\ at_heap = TwoLists(DemoL1, DemoL2)
    /\ at_l1 = 1
    /\ at_l2 = Len(DemoL1) + 1
    /\ at_ret = None
    /\ ms_fn = "merge_sort"
    /\ ms_args = <<sort_ls>>
    /\ ms_ret = None
    /\ dl_nodes = <<>>
    /\ dl_head = 0
    /\ dl_starts = <<>>
    /\ dl_ends = <<>>
    /\ dl_op = <<"init", None, <<<<>>, 0>>, None>>

SpecSearch == InitSearch /\ [][SearchNext]_vars

\* the interpreter keeps running the loop of binary_search
SpecSearchFair == SpecSearch /\ WF_vars(SearchNext)

\* sliding_window_sum_subarray alone, on any of the arrays
InitWindow ==
    /\ heap = <<>>
    /\ ins = <<>>
    /\ outs = <<>>
    /\ interleaved = FALSE
    /\ hop = <<"init", None, <<>>, None>>
    /\ rootData = DemoRoot
    /\ tree = Node(DemoRoot)
    /\ inserted = {}
    /\ bop = <<"init", Some(DemoRoot), <<>>, None>>
    /\ edges = routes
    /\ graph_dict = BuildGraph(routes, 1, EmptyDict)
    /\ gop = <<"init", None, None, None>>
    /\ stack = <<>>
    /\ wcall = <<None, None>>
    /\ wret = None
    /\ hsize = 1
    /\ buckets = [i \in 1..1 |-> <<>>]
    /\ hlive = {}
    /\ hput = [k \in HKeys |-> None]
    /\ overwrote = FALSE
    /\ collided = FALSE
    /\ mop = <<"init", None, None, <<>>, None>>
    /\ bs_ls = ls
    /\ bs_num = num_to_find
    /\ bs_start = 0
    /\ bs_end = Len(ls) - 1
    /\ bs_ret = None
    /\ sw_arr \in Arrays
    /\ sw_op = <<None, None>>
    /\ sl_nodes = DemoList[1]
    /\ sl_head = DemoList[2]
    /\ sl_op = <<"init", None, <<<<>>, 0>>, None>>
    /\ cy_next = [n \in CycleNodes |-> 0]
    /\ cy_head = 0
    /\ cy_slow = 0
    /\ cy_fast = 0
    /\ cy_ret = None
    /\ cq_capacity = 1
    /\ cq_queue = <<>>
    /\ cq_front = 0 - 1
    /\ cq_rear = 0 - 1
    /\ cq_enq = <<>>
    /\ cq_deq = <<>>
    /\ cq_op = <<"init", None, <<<<>>, 0 - 1, 0 - 1>>, None>>
    /\ si_nums = <<>>
    /\ si_target = 0
    /\ si_ret = None
    /\ si_ret2 = None
    /\ at_heap = TwoLists(DemoL1, DemoL2)
    /\ at_l1 = 1
    /\ at_l2 = Len(DemoL1) + 1
    /\ at_ret = None
    /\ ms_fn = "merge_sort"
    /\ ms_args = <<sort_ls>>
    /\ ms_ret = None
    /\ dl_nodes = <<>>
    /\ dl_head = 0
    /\ dl_starts = <<>>
    /\ dl_ends = <<>>
    /\ dl_op = <<"init", None, <<<<>>, 0>>, None>>

SpecWindow == InitWindow /\ [][WindowNext]_vars

\* SingleLinkedList alone: SingleLinkedList()
InitList ==
    /\ heap = <<>>
    /\ ins = <<>>
    /\ outs = <<>>
    /\ interleaved = FALSE
    /\ hop = <<"init", None, <<>>, None>>
    /\ rootData = DemoRoot
    /\ tree = Node(DemoRoot)
    /\ inserted = {}
    /\ bop = <<"init", Some(DemoRoot), <<>>, None>>
    /\ edges = routes
    /\ graph_dict = BuildGraph(routes, 1, EmptyDict)
    /\ gop = <<"init", None, None, None>>
    /\ stack = <<>>
    /\ wcall = <<None, None>>
    /\ wret = None
    /\ hsize = 1
    /\ buckets = [i \in 1..1 |-> <<>>]
    /\ hlive = {}
    /\ hput = [k \in HKeys |-> None]
    /\ overwrote = FALSE
    /\ collided = FALSE
    /\ mop = <<"init", None, None, <<>>, None>>
    /\ bs_ls = ls
    /\ bs_num = num_to_find
    /\ bs_start = 0
    /\ bs_end = Len(ls) - 1
    /\ bs_ret = None
    /\ sw_arr = <<>>
    /\ sw_op = <<None, None>>
    /\ sl_nodes = <<>>
    /\ sl_head = 0
    /\ sl_op = <<"init", None, <<<<>>, 0>>, None>>
    /\ cy_next = [n \in CycleNodes |-> 0]
    /\ cy_head = 0
    /\ cy_slow = 0
    /\ cy_fast = 0
    /\ cy_ret = None
    /\ cq_capacity = 1
    /\ cq_queue = <<>>
    /\ cq_front = 0 - 1
    /\ cq_rear = 0 - 1
    /\ cq_enq = <<>>
    /\ cq_deq = <<>>
    /\ cq_op = <<"init", None, <<<<>>, 0 - 1, 0 - 1>>, None>>
    /\ si_nums = <<>>
    /\ si_target = 0
    /\ si_ret = None
    /\ si_ret2 = None
    /\ at_heap = TwoLists(DemoL1, DemoL2)
    /\ at_l1 = 1
    /\ at_l2 = Len(DemoL1) + 1
    /\ at_ret = None
    /\ ms_fn = "merge_sort"
    /\ ms_args = <<sort_ls>>
    /\ ms_ret = None
    /\ dl_nodes = <<>>
    /\ dl_head = 0
    /\ dl_starts = <<>>
    /\ dl_ends = <<>>
    /\ dl_op = <<"init", None, <<<<>>, 0>>, None>>

SpecList == InitList /\ [][ListNext]_vars

\* check_single_list_cycle alone: one call on any node structure, just entered
InitCycle ==
    /\ heap = <<>>
    /\ ins = <<>>
    /\ outs = <<>>
    /\ interleaved = FALSE
    /\ hop = <<"init", None, <<>>, None>>
    /\ rootData = DemoRoot
    /\ tree = Node(DemoRoot)
    /\ inserted = {}
    /\ bop = <<"init", Some(DemoRoot), <<>>, None>>
    /\ edges = routes
    /\ graph_dict = BuildGraph(routes, 1, EmptyDict)
    /\ gop = <<"init", None, None, None>>
    /\ stack = <<>>
    /\ wcall = <<None, None>>
    /\ wret = None
    /\ hsize = 1
    /\ buckets = [i \in 1..1 |-> <<>>]
    /\ hlive = {}
    /\ hput = [k \in HKeys |-> None]
    /\ overwrote = FALSE
    /\ collided = FALSE
    /\ mop = <<"init", None, None, <<>>, None>>
    /\ bs_ls = ls
    /\ bs_num = num_to_find
    /\ bs_start = 0
    /\ bs_end = Len(ls) - 1
    /\ bs_ret = None
    /\ sw_arr = <<>>
    /\ sw_op = <<None, None>>
    /\ sl_nodes = DemoList[1]
    /\ sl_head = DemoList[2]
    /\ sl_op = <<"init", None, <<<<>>, 0>>, None>>
    /\ cy_next \in Structures
    /\ cy_head \in 0..MaxCycleNodes
    /\ cy_slow = cy_head
    /\ cy_fast = cy_head
    /\ cy_ret = None
    /\ cq_capacity = 1
    /\ cq_queue = <<>>
    /\ cq_front = 0 - 1
    /\ cq_rear = 0 - 1
    /\ cq_enq = <<>>
    /\ cq_deq = <<>>
    /\ cq_op = <<"init", None, <<<<>>, 0 - 1, 0 - 1>>, None>>
    /\ si_nums = <<>>
    /\ si_target = 0
    /\ si_ret = None
    /\ si_ret2 = None
    /\ at_heap = TwoLists(DemoL1, DemoL2)
    /\ at_l1 = 1
    /\ at_l2 = Len(DemoL1) + 1
    /\ at_ret = None
    /\ ms_fn = "merge_sort"
    /\ ms_args = <<sort_ls>>
    /\ ms_ret = None
    /\ dl_nodes = <<>>
    /\ dl_head = 0
    /\ dl_starts = <<>>
    /\ dl_ends = <<>>
    /\ dl_op = <<"init", None, <<<<>>, 0>>, None>>

SpecCycle == InitCycle /\ [][CycleNext]_vars

\* the interpreter keeps running the loop of check_single_list_cycle
SpecCycleFair == SpecCycle /\ WF_vars(CycleNext)

\* CirclularQueue alone: CirclularQueue(capacity)
InitQueue ==
    /\ heap = <<>>
    /\ ins = <<>>
    /\ outs = <<>>
    /\ interleaved = FALSE
    /\ hop = <<"init", None, <<>>, None>>
    /\ rootData = DemoRoot
    /\ tree = Node(DemoRoot)
    /\ inserted = {}
    /\ bop = <<"init", Some(DemoRoot), <<>>, None>>
    /\ edges = routes
    /\ graph_dict = BuildGraph(routes, 1, EmptyDict)
    /\ gop = <<"init", None, None, None>>
    /\ stack = <<>>
    /\ wcall = <<None, None>>
    /\ wret = None
    /\ hsize = 1
    /\ buckets = [i \in 1..1 |-> <<>>]
    /\ hlive = {}
    /\ hput = [k \in HKeys |-> None]
    /\ overwrote = FALSE
    /\ collided = FALSE
    /\ mop = <<"init", None, None, <<>>, None>>
    /\ bs_ls = ls
    /\ bs_num = num_to_find
    /\ bs_start = 0
    /\ bs_end = Len(ls) - 1
    /\ bs_ret = None
    /\ sw_arr = <<>>
    /\ sw_op = <<None, None>>
    /\ sl_nodes = DemoList[1]
    /\ sl_head = DemoList[2]
    /\ sl_op = <<"init", None, <<<<>>, 0>>, None>>
    /\ cy_next = [n \in CycleNodes |-> 0]
    /\ cy_head = 0
    /\ cy_slow = 0
    /\ cy_fast = 0
    /\ cy_ret = None
    /\ cq_capacity \in Capacities
    /\ cq_queue = <<>>
    /\ cq_front = 0 - 1
    /\ cq_rear = 0 - 1
    /\ cq_enq = <<>>
    /\ cq_deq = <<>>
    /\ cq_op = <<"init", None, <<<<>>, 0 - 1, 0 - 1>>, None>>
    /\ si_nums = <<>>
    /\ si_target = 0
    /\ si_ret = None
    /\ si_ret2 = None
    /\ at_heap = TwoLists(DemoL1, DemoL2)
    /\ at_l1 = 1
    /\ at_l2 = Len(DemoL1) + 1
    /\ at_ret = None
    /\ ms_fn = "merge_sort"
    /\ ms_args = <<sort_ls>>
    /\ ms_ret = None
    /\ dl_nodes = <<>>
    /\ dl_head = 0
    /\ dl_starts = <<>>
    /\ dl_ends = <<>>
    /\ dl_op = <<"init", None, <<<<>>, 0>>, None>>

SpecQueue == InitQueue /\ [][QueueNext]_vars

\* searchInsert and searchInsert2 alone, about to be called on the same array
\* and target
InitInsert ==
    /\ heap = <<>>
    /\ ins = <<>>
    /\ outs = <<>>
    /\ interleaved = FALSE
    /\ hop = <<"init", None, <<>>, None>>
    /\ rootData = DemoRoot
    /\ tree = Node(DemoRoot)
    /\ inserted = {}
    /\ bop = <<"init", Some(DemoRoot), <<>>, None>>
    /\ edges = routes
    /\ graph_dict = BuildGraph(routes, 1, EmptyDict)
    /\ gop = <<"init", None, None, None>>
    /\ stack = <<>>
    /\ wcall = <<None, None>>
    /\ wret = None
    /\ hsize = 1
    /\ buckets = [i \in 1..1 |-> <<>>]
    /\ hlive = {}
    /\ hput = [k \in HKeys |-> None]
    /\ overwrote = FALSE
    /\ collided = FALSE
    /\ mop = <<"init", None, None, <<>>, None>>
    /\ bs_ls = ls
    /\ bs_num = num_to_find
    /\ bs_start = 0
    /\ bs_end = Len(ls) - 1
    /\ bs_ret = None
    /\ sw_arr = <<>>
    /\ sw_op = <<None, None>>
    /\ sl_nodes = DemoList[1]
    /\ sl_head = DemoList[2]
    /\ sl_op = <<"init", None, <<<<>>, 0>>, None>>
    /\ cy_next = [n \in CycleNodes |-> 0]
    /\ cy_head = 0
    /\ cy_slow = 0
    /\ cy_fast = 0
    /\ cy_ret = None
    /\ cq_capacity = 1
    /\ cq_queue = <<>>
    /\ cq_front = 0 - 1
    /\ cq_rear = 0 - 1
    /\ cq_enq = <<>>
    /\ cq_deq = <<>>
    /\ cq_op = <<"init", None, <<<<>>, 0 - 1, 0 - 1>>, None>>
    /\ si_nums \in AscendingLists
    /\ si_target \in Targets
    /\ si_ret = None
    /\ si_ret2 = None
    /\ at_heap = TwoLists(DemoL1, DemoL2)
    /\ at_l1 = 1
    /\ at_l2 = Len(DemoL1) + 1
    /\ at_ret = None
    /\ ms_fn = "merge_sort"
    /\ ms_args = <<sort_ls>>
    /\ ms_ret = None
    /\ dl_nodes = <<>>
    /\ dl_head = 0
    /\ dl_starts = <<>>
    /\ dl_ends = <<>>
    /\ dl_op = <<"init", None, <<<<>>, 0>>, None>>

SpecInsert == InitInsert /\ [][InsertNext]_vars

\* addTwoNumbers alone: two lists built by list_to_nodes, the call about to
\* be made
InitAdd ==
    /\ heap = <<>>
    /\ ins = <<>>
    /\ outs = <<>>
    /\ interleaved = FALSE
    /\ hop = <<"init", None, <<>>, None>>
    /\ rootData = DemoRoot
    /\ tree = Node(DemoRoot)
    /\ inserted = {}
    /\ bop = <<"init", Some(DemoRoot), <<>>, None>>
    /\ edges = routes
    /\ graph_dict = BuildGraph(routes, 1, EmptyDict)
    /\ gop = <<"init", None, None, None>>
    /\ stack = <<>>
    /\ wcall = <<None, None>>
    /\ wret = None
    /\ hsize = 1
    /\ buckets = [i \in 1..1 |-> <<>>]
    /\ hlive = {}
    /\ hput = [k \in HKeys |-> None]
    /\ overwrote = FALSE
    /\ collided = FALSE
    /\ mop = <<"init", None, None, <<>>, None>>
    /\ bs_ls = ls
    /\ bs_num = num_to_find
    /\ bs_start = 0
    /\ bs_end = Len(ls) - 1
    /\ bs_ret = None
    /\ sw_arr = <<>>
    /\ sw_op = <<None, None>>
    /\ sl_nodes = DemoList[1]
    /\ sl_head = DemoList[2]
    /\ sl_op = <<"init", None, <<<<>>, 0>>, None>>
    /\ cy_next = [n \in CycleNodes |-> 0]
    /\ cy_head = 0
    /\ cy_slow = 0
    /\ cy_fast = 0
    /\ cy_ret = None
    /\ cq_capacity = 1
    /\ cq_queue = <<>>
    /\ cq_front = 0 - 1
    /\ cq_rear = 0 - 1
    /\ cq_enq = <<>>
    /\ cq_deq = <<>>
    /\ cq_op = <<"init", None, <<<<>>, 0 - 1, 0 - 1>>, None>>
    /\ si_nums = <<>>
    /\ si_target = 0
    /\ si_ret = None
    /\ si_ret2 = None
    /\ \E d1 \in DigitLists : \E d2 \in DigitLists :
          /\ at_heap = TwoLists(d1, d2)
          /\ at_l1 = 1
          /\ at_l2 = Len(d1) + 1
    /\ at_ret = None
    /\ ms_fn = "merge_sort"
    /\ ms_args = <<sort_ls>>
    /\ ms_ret = None
    /\ dl_nodes = <<>>
    /\ dl_head = 0
    /\ dl_starts = <<>>
    /\ dl_ends = <<>>
    /\ dl_op = <<"init", None, <<<<>>, 0>>, None>>

SpecAdd == InitAdd /\ [][AddNext]_vars

\* merge_sort and merge alone: one call of either, about to be made
InitSort ==
    /\ heap = <<>>
    /\ ins = <<>>
    /\ outs = <<>>
    /\ interleaved = FALSE
    /\ hop = <<"init", None, <<>>, None>>
    /\ rootData = DemoRoot
    /\ tree = Node(DemoRoot)
    /\ inserted = {}
    /\ bop = <<"init", Some(DemoRoot), <<>>, None>>
    /\ edges = routes
    /\ graph_dict = BuildGraph(routes, 1, EmptyDict)
    /\ gop = <<"init", None, None, None>>
    /\ stack = <<>>
    /\ wcall = <<None, None>>
    /\ wret = None
    /\ hsize = 1
    /\ buckets = [i \in 1..1 |-> <<>>]
    /\ hlive = {}
    /\ hput = [k \in HKeys |-> None]
    /\ overwrote = FALSE
    /\ collided = FALSE
    /\ mop = <<"init", None, None, <<>>, None>>
    /\ bs_ls = ls
    /\ bs_num = num_to_find
    /\ bs_start = 0
    /\ bs_end = Len(ls) - 1
    /\ bs_ret = None
    /\ sw_arr = <<>>
    /\ sw_op = <<None, None>>
    /\ sl_nodes = DemoList[1]
    /\ sl_head = DemoList[2]
    /\ sl_op = <<"init", None, <<<<>>, 0>>, None>>
    /\ cy_next = [n \in CycleNodes |-> 0]
    /\ cy_head = 0
    /\ cy_slow = 0
    /\ cy_fast = 0
    /\ cy_ret = None
    /\ cq_capacity = 1
    /\ cq_queue = <<>>
    /\ cq_front = 0 - 1
    /\ cq_rear = 0 - 1
    /\ cq_enq = <<>>
    /\ cq_deq = <<>>
    /\ cq_op = <<"init", None, <<<<>>, 0 - 1, 0 - 1>>, None>>
    /\ si_nums = <<>>
    /\ si_target = 0
    /\ si_ret = None
    /\ si_ret2 = None
    /\ at_heap = TwoLists(DemoL1, DemoL2)
    /\ at_l1 = 1
    /\ at_l2 = Len(DemoL1) + 1
    /\ at_ret = None
    /\ \/ ms_fn = "merge_sort" /\ ms_args \in {<<arr>> : arr \in SortInputs}
       \/ ms_fn = "merge" /\ ms_args \in MergeInputs \X MergeInputs
    /\ ms_ret = None
    /\ dl_nodes = <<>>
    /\ dl_head = 0
    /\ dl_starts = <<>>
    /\ dl_ends = <<>>
    /\ dl_op = <<"init", None, <<<<>>, 0>>, None>>

SpecSort == InitSort /\ [][SortNext]_vars

\* the interpreter runs a call that is about to be made
SpecSortFair == SpecSort /\ WF_vars(SortNext)

\* DoublyLinkedList alone: DoublyLinkedList()
InitDList ==
    /\ heap = <<>>
    /\ ins = <<>>
    /\ outs = <<>>
    /\ interleaved = FALSE
    /\ hop = <<"init", None, <<>>, None>>
    /\ rootData = DemoRoot
    /\ tree = Node(DemoRoot)
    /\ inserted = {}
    /\ bop = <<"init", Some(DemoRoot), <<>>, None>>
    /\ edges = routes
    /\ graph_dict = BuildGraph(routes, 1, EmptyDict)
    /\ gop = <<"init", None, None, None>>
    /\ stack = <<>>
    /\ wcall = <<None, None>>
    /\ wret = None
    /\ hsize = 1
    /\ buckets = [i \in 1..1 |-> <<>>]
    /\ hlive = {}
    /\ hput = [k \in HKeys |-> None]
    /\ overwrote = FALSE
    /\ collided = FALSE
    /\ mop = <<"init", None, None, <<>>, None>>
    /\ bs_ls = ls
    /\ bs_num = num_to_find
    /\ bs_start = 0
    /\ bs_end = Len(ls) - 1
    /\ bs_ret = None
    /\ sw_arr = <<>>
    /\ sw_op = <<None, None>>
    /\ sl_nodes = DemoList[1]
    /\ sl_head = DemoList[2]
    /\ sl_op = <<"init", None, <<<<>>, 0>>, None>>
    /\ cy_next = [n \in CycleNodes |-> 0]
    /\ cy_head = 0
    /\ cy_slow = 0
    /\ cy_fast = 0
    /\ cy_ret = None
    /\ cq_capacity = 1
    /\ cq_queue = <<>>
    /\ cq_front = 0 - 1
    /\ cq_rear = 0 - 1
    /\ cq_enq = <<>>
    /\ cq_deq = <<>>
    /\ cq_op = <<"init", None, <<<<>>, 0 - 1, 0 - 1>>, None>>
    /\ si_nums = <<>>
    /\ si_target = 0
    /\ si_ret = None
    /\ si_ret2 = None
    /\ at_heap = TwoLists(DemoL1, DemoL2)
    /\ at_l1 = 1
    /\ at_l2 = Len(DemoL1) + 1
    /\ at_ret = None
    /\ ms_fn = "merge_sort"
    /\ ms_args = <<sort_ls>>
    /\ ms_ret = None
    /\ dl_nodes = <<>>
    /\ dl_head = 0
    /\ dl_starts = <<>>
    /\ dl_ends = <<>>
    /\ dl_op = <<"init", None, <<<<>>, 0>>, None>>

SpecDList == InitDList /\ [][DListNext]_vars

\* all scripts
Init ==
    /\ heap = <<>>
    /\ ins = <<>>
    /\ outs = <<>>
    /\ interleaved = FALSE
    /\ hop = <<"init", None, <<>>, None>>
    /\ rootData \in Vals
    /\ tree = Node(rootData)
    /\ inserted = {}
    /\ bop = <<"init", Some(rootData), <<>>, None>>
    /\ edges \in EdgeLists
    /\ graph_dict = BuildGraph(edges, 1, EmptyDict)
    /\ gop = <<"init", None, None, None>>
    /\ stack = <<>>
    /\ wcall = <<None, None>>
    /\ wret = None
    /\ hsize \in Sizes
    /\ buckets = [i \in 1..hsize |-> <<>>]
    /\ hlive = {}
    /\ hput = [k \in HKeys |-> None]
    /\ overwrote = FALSE
    /\ collided = FALSE
    /\ mop = <<"init", None, None, <<>>, None>>
    /\ bs_ls \in SortedLists
    /\ bs_num \in Nums
    /\ bs_start = 0
    /\ bs_end = Len(bs_ls) - 1
    /\ bs_ret = None
    /\ sw_arr \in Arrays
    /\ sw_op = <<None, None>>
    /\ sl_nodes = <<>>
    /\ sl_head = 0
    /\ sl_op = <<"init", None, <<<<>>, 0>>, None>>
    /\ cy_next \in Structures
    /\ cy_head \in 0..MaxCycleNodes
    /\ cy_slow = cy_head
    /\ cy_fast = cy_head
    /\ cy_ret = None
    /\ cq_capacity \in Capacities
    /\ cq_queue = <<>>
    /\ cq_front = 0 - 1
    /\ cq_rear = 0 - 1
    /\ cq_enq = <<>>
    /\ cq_deq = <<>>
    /\ cq_op = <<"init", None, <<<<>>, 0 - 1, 0 - 1>>, None>>
    /\ si_nums \in AscendingLists
    /\ si_target \in Targets
    /\ si_ret = None
    /\ si_ret2 = None
    /\ \E d1 \in DigitLists : \E d2 \in DigitLists :
          /\ at_heap = TwoLists(d1, d2)
          /\ at_l1 = 1
          /\ at_l2 = Len(d1) + 1
    /\ at_ret = None
    /\ \/ ms_fn = "merge_sort" /\ ms_args \in {<<arr>> : arr \in SortInputs}
       \/ ms_fn = "merge" /\ ms_args \in MergeInputs \X MergeInputs
    /\ ms_ret = None
    /\ dl_nodes = <<>>
    /\ dl_head = 0
    /\ dl_starts = <<>>
    /\ dl_ends = <<>>
    /\ dl_op = <<"init", None, <<<<>>, 0>>, None>>

Next ==
    \/ HeapNext
    \/ BSTNext
    \/ GraphNext
    \/ WalkNext
    \/ MapNext
    \/ SearchNext
    \/ WindowNext
    \/ ListNext
    \/ CycleNext
    \/ QueueNext
    \/ InsertNext
    \/ AddNext
    \/ SortNext
    \/ DListNext

Spec == Init /\ [][Next]_vars

\* ==================================================== properties: MinHeap
\* s is in non-decreasing order
Sorted(s) == \A i \in 1..(Len(s) - 1) : s[i] <= s[i + 1]

\* the number of occurrences of v in the sequence s
Count(s, v) == Cardinality({i \in DOMAIN s : s[i] = v})

\* s and t hold the same multiset of keys
SameMultiset(s, t) ==
    /\ Len(s) = Len(t)
    /\ \A v \in Keys : Count(s, v) = Count(t, v)

\* C1: when all inserts into the initially empty heap come before the
\* extract_min calls, the values extract_min returns are in non-decreasing
\* order, and once the heap is empty again they are exactly the inserted
\* multiset.
C1_HeapSort ==
    ~interleaved =>
        /\ Sorted(outs)
        /\ heap = <<>> => SameMultiset(outs, ins)

\* five keys with duplicates and more than one value were inserted and then
\* all extracted
C1_Witness ==
    /\ ~interleaved
    /\ heap = <<>>
    /\ hop[1] = "extract_min"
    /\ Len(outs) >= 5
    /\ \E i, j \in DOMAIN ins : i < j /\ ins[i] > ins[j]
    /\ \E i, j \in DOMAIN ins : i < j /\ ins[i] = ins[j]
    /\ \E i, j \in DOMAIN ins : i < j /\ ins[i] < ins[j]

\* C2: after any interleaving of insert and extract_min every element is at
\* least its parent at (i-1) div 2.
C2_HeapInvariant ==
    \A i \in 1..(Len(heap) - 1) : At(heap, (i - 1) \div 2) <= At(heap, i)

\* an extract_min that had to sift down, after inserts and extracts were mixed
C2_Witness ==
    /\ interleaved
    /\ hop[1] = "extract_min"
    /\ Len(heap) >= 4
    /\ heap # PopLast(<<hop[3][Len(hop[3])]>> \o Tail(hop[3]))
    /\ \E i, j \in DOMAIN heap : heap[i] # heap[j]

\* C3: extract_min on an empty heap returns None and leaves the heap empty.
C3_ExtractEmpty ==
    (hop[1] = "extract_min" /\ hop[3] = <<>>) => (hop[4] = None /\ heap = <<>>)

\* extract_min on a heap that was filled and drained before
C3_Witness ==
    /\ hop[1] = "extract_min"
    /\ hop[3] = <<>>
    /\ hop[4] = None
    /\ outs # <<>>

\* C4: extract_min on a non-empty heap returns the element at index 0, which
\* is the minimum, and removes exactly one occurrence of it; insert(key) adds
\* exactly one occurrence of key; nothing else changes in the multiset.
C4_MultisetEffect ==
    /\ (hop[1] = "extract_min" /\ hop[3] # <<>>) =>
          /\ hop[4] = Some(At(hop[3], 0))
          /\ \A i \in DOMAIN hop[3] : hop[4][1] <= hop[3][i]
          /\ Len(heap) = Len(hop[3]) - 1
          /\ \A v \in Keys :
                Count(heap, v) = Count(hop[3], v) - (IF v = hop[4][1] THEN 1 ELSE 0)
    /\ hop[1] = "insert" =>
          /\ Len(heap) = Len(hop[3]) + 1
          /\ \A v \in Keys :
                Count(heap, v) = Count(hop[3], v) + (IF v = hop[2][1] THEN 1 ELSE 0)

\* an extract_min from a heap of five keys that holds its minimum twice
C4_Witness ==
    /\ hop[1] = "extract_min"
    /\ Len(hop[3]) >= 5
    /\ Count(hop[3], hop[4][1]) >= 2
    /\ \E i \in DOMAIN hop[3] : hop[3][i] > hop[4][1]

\* ======================================================== properties: BST
\* the set of values stored in the tree t
RECURSIVE Values(_)
Values(t) == IF t = <<>> THEN {} ELSE {t[1]} \cup Values(t[2]) \cup Values(t[3])

\* s is strictly increasing
StrictlySorted(s) == \A i \in 1..(Len(s) - 1) : s[i] < s[i + 1]

\* C5: after inserts of non-zero values into a BST with any root value, the
\* inorder traversal visits the stored values in strictly increasing order.
C5_InorderSorted ==
    0 \notin inserted =>
        /\ StrictlySorted(inorder(tree))
        /\ {inorder(tree)[i] : i \in DOMAIN inorder(tree)} = {rootData} \cup inserted

\* an inorder traversal of a tree of four values, inserted on both sides of the root
C5_Witness ==
    /\ 0 \notin inserted
    /\ bop[1] = "inorder"
    /\ Len(bop[4][1]) >= 4
    /\ tree[2] # <<>>
    /\ tree[3] # <<>>

\* every node of t has only smaller values on its left and larger on its right
RECURSIVE IsSearchTree(_)
IsSearchTree(t) ==
    \/ t = <<>>
    \/ /\ \A v \in Values(t[2]) : v < t[1]
       /\ \A v \in Values(t[3]) : v > t[1]
       /\ IsSearchTree(t[2])
       /\ IsSearchTree(t[3])

\* C6: after any sequence of inserts every node satisfies the search-tree
\* invariant.
C6_SearchTreeInvariant == IsSearchTree(tree)

\* an insert that went two levels down
C6_Witness ==
    /\ bop[1] = "insert"
    /\ tree # bop[3]
    /\ \/ (tree[2] # <<>> /\ tree[2][3] # <<>> /\ bop[3][2] # <<>> /\ bop[3][2][3] = <<>>)
       \/ (tree[3] # <<>> /\ tree[3][2] # <<>> /\ bop[3][3] # <<>> /\ bop[3][3][2] = <<>>)

\* C7: insert of a value already stored is a no-op, and no value is stored
\* twice.
C7_DuplicateNoOp ==
    /\ (bop[1] = "insert" /\ bop[2][1] \in Values(bop[3])) => tree = bop[3]
    /\ Len(inorder(tree)) = Cardinality(Values(tree))

\* an insert of a non-zero value stored below the root
C7_Witness ==
    /\ bop[1] = "insert"
    /\ bop[2][1] \in Values(bop[3])
    /\ bop[2][1] # bop[3][1]
    /\ bop[2][1] # 0
    /\ Cardinality(Values(bop[3])) >= 3

\* C8: insert(0) leaves the tree unchanged, and search(0) is False unless the
\* root was constructed with 0.
C8_InsertZero ==
    /\ (bop[1] = "insert" /\ bop[2] = Some(0)) => tree = bop[3]
    /\ search(tree, 0) = (rootData = 0)
    /\ (bop[1] = "search" /\ bop[2] = Some(0)) => bop[4] = Some(rootData = 0)

\* search(0) on a tree with values on both sides of 0, after insert(0)
C8_Witness ==
    /\ bop[1] = "search"
    /\ bop[2] = Some(0)
    /\ bop[4] = Some(FALSE)
    /\ 0 \in inserted
    /\ \E v \in Values(tree) : v < 0
    /\ \E v \in Values(tree) : v > 0

\* C9: search(v) is True exactly for the root's constructor value and the
\* non-zero values passed to insert, and search does not modify the tree.
C9_Search ==
    /\ \A v \in Vals :
          search(tree, v) = (v = rootData \/ (v # 0 /\ v \in inserted))
    /\ bop[1] = "search" =>
          /\ tree = bop[3]
          /\ bop[4] = Some(bop[2][1] = rootData
                           \/ (bop[2][1] # 0 /\ bop[2][1] \in inserted))

\* a successful search for a value two levels below the root
C9_Witness ==
    /\ bop[1] = "search"
    /\ bop[4] = Some(TRUE)
    /\ bop[2][1] # rootData
    /\ bop[2][1] \notin Values(Node(tree[1])) \cup
          (IF tree[2] = <<>> THEN {} ELSE {tree[2][1]}) \cup
          (IF tree[3] = <<>> THEN {} ELSE {tree[3][1]})

\* ====================================================== properties: Graph
\* C10: on the Graph built from routes, get_all_paths("Mumbai", "New York")
\* returns exactly the three paths Mumbai-Paris-Dubai-New York,
\* Mumbai-Paris-New York and Mumbai-Dubai-New York.
C10_SamplePaths ==
    (edges = routes /\ gop[1] = "get_all_paths"
       /\ gop[2] = Some("Mumbai") /\ gop[3] = Some("New York")) =>
        gop[4] = Some(<< <<"Mumbai", "Paris", "Dubai", "New York">>,
                         <<"Mumbai", "Paris", "New York">>,
                         <<"Mumbai", "Dubai", "New York">> >>)

\* the call get_all_paths("Mumbai", "New York") on Graph(routes) has returned
C10_Witness ==
    /\ edges = routes
    /\ gop[1] = "get_all_paths"
    /\ gop[2] = Some("Mumbai")
    /\ gop[3] = Some("New York")
    /\ Len(gop[4][1]) = 3

\* the nodes an edge of es leads to from a node of S
Succ(es, S) == {es[i][2] : i \in {j \in DOMAIN es : es[j][1] \in S}}

\* the nodes reached from a node of S along at least one and at most k edges
RECURSIVE ReachN(_, _, _)
ReachN(es, S, k) ==
    IF k = 0 THEN {} ELSE Succ(es, S) \cup ReachN(es, Succ(es, S), k - 1)

\* b can be reached from a (a node reaches itself along no edge)
Reachable(es, a, b) == a = b \/ b \in ReachN(es, {a}, Cardinality(Nodes))

\* no node of the graph lies on a cycle
Acyclic(es) == \A n \in Nodes : n \notin ReachN(es, {n}, Cardinality(Nodes))

\* no edge is listed twice
NoRepeatedEdges(es) == \A i, j \in DOMAIN es : i # j => es[i] # es[j]

\* the directed paths from start to end: the node sequences that follow edges
DirectedPaths(es, start, end) ==
    {p \in UNION {[1..k -> Nodes] : k \in 1..Cardinality(Nodes)} :
        /\ p[1] = start
        /\ p[Len(p)] = end
        /\ \A k \in 1..(Len(p) - 1) : \E i \in DOMAIN es : es[i] = <<p[k], p[k + 1]>>}

\* no node occurs twice in p
Simple(p) == \A i, j \in DOMAIN p : i # j => p[i] # p[j]

\* the position of x in the sequence q
Pos(q, x) == CHOOSE i \in DOMAIN q : q[i] = x

\* p comes before q in depth-first order: where they first differ, p takes
\* the neighbour that is earlier in the adjacency list of the node before
DfsBefore(d, p, q) ==
    \E k \in 2..Len(p) :
        /\ k <= Len(q)
        /\ \A m \in 1..(k - 1) : p[m] = q[m]
        /\ p[k] # q[k]
        /\ Pos(d[p[k - 1]], p[k]) < Pos(d[p[k - 1]], q[k])

\* C11: on an acyclic edge list without repeated edges get_all_paths(start,
\* end) returns every directed path from start to end exactly once, each
\* simple, starting at start and ending at end, in depth-first order of the
\* adjacency lists.
C11_AllPaths ==
    (gop[1] = "get_all_paths" /\ Acyclic(edges) /\ NoRepeatedEdges(edges)) =>
        LET res == gop[4][1]
        IN  /\ \A i, j \in DOMAIN res : i # j => res[i] # res[j]
            /\ {res[i] : i \in DOMAIN res} = DirectedPaths(edges, gop[2][1], gop[3][1])
            /\ \A i \in DOMAIN res :
                  /\ Simple(res[i])
                  /\ res[i][1] = gop[2][1]
                  /\ res[i][Len(res[i])] = gop[3][1]
            /\ \A i, j \in DOMAIN res : i < j => DfsBefore(graph_dict, res[i], res[j])

\* a call that returned paths of different lengths on a graph other than routes
C11_Witness ==
    /\ gop[1] = "get_all_paths"
    /\ edges # routes
    /\ Len(gop[4][1]) >= 2
    /\ \E i, j \in DOMAIN gop[4][1] : Len(gop[4][1][i]) < Len(gop[4][1][j])

\* C12 as stated: get_all_paths returns [] whenever start is not in the
\* adjacency map or end cannot be reached from start, start = end included.
C12_EmptyAlways ==
    (wret # None /\ (wcall[1] \notin DOMAIN graph_dict
                       \/ ~Reachable(edges, wcall[1], wcall[2]))) =>
        wret = Some(<<>>)

\* C12 amended: get_all_paths returns [] when start differs from end and start
\* is not in the adjacency map or end cannot be reached from start; when
\* start equals end it returns the one path [start].
C12_EmptyResult ==
    wret # None =>
        /\ (wcall[1] # wcall[2]
              /\ (wcall[1] \notin DOMAIN graph_dict
                    \/ ~Reachable(edges, wcall[1], wcall[2]))) =>
              wret = Some(<<>>)
        /\ wcall[1] = wcall[2] => wret = Some(<< <<wcall[1]>> >>)

\* a call from a node that has edges, but none leading to end, returned
C12_Witness ==
    /\ wret = Some(<<>>)
    /\ wcall[1] # wcall[2]
    /\ wcall[1] \in DOMAIN graph_dict
    /\ ~Reachable(edges, wcall[1], wcall[2])
    /\ wcall[2] \in DOMAIN graph_dict

\* p is among the shortest paths of all_paths and the first of that length
FirstShortest(all_paths, p) ==
    \E i \in DOMAIN all_paths :
        /\ all_paths[i] = p
        /\ \A j \in DOMAIN all_paths : Len(all_paths[j]) >= Len(p)
        /\ \A j \in 1..(i - 1) : Len(all_paths[j]) > Len(p)

\* C13: for start # end on an acyclic graph find_shortest_path returns the
\* first path of minimum length among those of get_all_paths, and [] when
\* there is none; on routes, from Mumbai to New York, a path of 3 nodes
\* through Paris or through Dubai.
C13_ShortestPath ==
    (gop[1] = "find_shortest_path" /\ gop[2] # gop[3] /\ Acyclic(edges)) =>
        LET all_paths == get_all_paths(graph_dict, gop[2][1], gop[3][1], <<>>)
        IN  /\ all_paths = <<>> => gop[4] = Some(<<>>)
            /\ all_paths # <<>> => FirstShortest(all_paths, gop[4][1])
            /\ (edges = routes /\ gop[2] = Some("Mumbai") /\ gop[3] = Some("New York")) =>
                  /\ Len(gop[4][1]) = 3
                  /\ gop[4][1] \in {<<"Mumbai", "Paris", "New York">>,
                                    <<"Mumbai", "Dubai", "New York">>}

\* find_shortest_path("Mumbai", "New York") on Graph(routes) has returned:
\* the first path is longer and two paths share the minimum length
C13_Witness ==
    /\ gop[1] = "find_shortest_path"
    /\ edges = routes
    /\ gop[2] = Some("Mumbai")
    /\ gop[3] = Some("New York")
    /\ Len(gop[4][1]) = 3

\* the edges of es that do not touch the node n
Without(es, n) == SelectSeq(es, LAMBDA e : e[1] # n /\ e[2] # n)

\* a cycle can be reached from start along edges that do not pass through end
CycleAvoidingEnd(es, start, end) ==
    /\ start # end
    /\ \E c \in Nodes \ {end} :
          /\ Reachable(Without(es, end), start, c)
          /\ c \in ReachN(Without(es, end), {c}, Cardinality(Nodes))

\* C14: get_all_paths terminates on every acyclic graph, with a recursion no
\* deeper than the number of nodes, and never returns when a cycle can be
\* reached from start along edges that do not pass through end.
C14_Termination ==
    /\ [](Acyclic(edges) => Len(stack) <= Cardinality(Nodes))
    /\ ((stack # <<>> /\ Acyclic(edges)) ~> (stack = <<>> /\ wret # None))
    /\ [](wret # None => ~CycleAvoidingEnd(edges, wcall[1], wcall[2]))

\* a call that can reach a cycle has recursed deeper than there are nodes
C14_Witness ==
    /\ stack # <<>>
    /\ CycleAvoidingEnd(edges, wcall[1], wcall[2])
    /\ Len(stack) > Cardinality(Nodes)
    /\ wret = None

\* ==================================================== properties: HashMap
\* the keys of the nodes of a chain, in chain order
ChainKeys(chain) == [p \in DOMAIN chain |-> chain[p][1]]

\* C15: put overwrites only the value of the node that holds the key, keeping
\* the chain's length and order, or else prepends a new node to the bucket
\* hash(key) mod size; every other bucket and node is unchanged.
C15_Put ==
    mop[1] = "put" =>
        LET key == mop[2][1]
            value == mop[3][1]
            index == (Hash(key) % hsize) + 1
            old == mop[4][index]
            new == buckets[index]
        IN  /\ \A i \in DOMAIN buckets : i # index => buckets[i] = mop[4][i]
            /\ DOMAIN buckets = DOMAIN mop[4]
            /\ (\E p \in DOMAIN old : old[p][1] = key) =>
                  /\ ChainKeys(new) = ChainKeys(old)
                  /\ \A p \in DOMAIN old :
                        new[p][2] = IF old[p][1] = key THEN value ELSE old[p][2]
            /\ (\A p \in DOMAIN old : old[p][1] # key) =>
                  new = <<HNode(key, value)>> \o old

\* a put that changed the value of a node behind the head of its chain
C15_Witness ==
    /\ mop[1] = "put"
    /\ \E i \in DOMAIN buckets :
          /\ Len(mop[4][i]) >= 3
          /\ mop[4][i][2][1] = mop[2][1]
          /\ mop[4][i][2][2] # mop[3][1]
          /\ buckets[i] # mop[4][i]

\* C16: remove unlinks exactly the node that holds the key and returns True,
\* the other nodes of the chain keeping their order; it returns False and
\* changes no bucket when no node holds the key.
C16_Remove ==
    mop[1] = "remove" =>
        LET key == mop[2][1]
            index == (Hash(key) % hsize) + 1
            old == mop[4][index]
        IN  IF \E i \in DOMAIN mop[4] : \E p \in DOMAIN mop[4][i] : mop[4][i][p][1] = key
            THEN /\ mop[5] = Some(TRUE)
                 /\ buckets[index] = SelectSeq(old, LAMBDA n : n[1] # key)
                 /\ Len(buckets[index]) = Len(old) - 1
                 /\ \A i \in DOMAIN buckets : i # index => buckets[i] = mop[4][i]
            ELSE /\ mop[5] = Some(FALSE)
                 /\ buckets = mop[4]

\* a remove of the node in the middle of a chain of three
C16_Witness ==
    /\ mop[1] = "remove"
    /\ mop[5] = Some(TRUE)
    /\ \E i \in DOMAIN buckets :
          /\ Len(mop[4][i]) >= 3
          /\ mop[4][i][2][1] = mop[2][1]

\* C17: once every key that was put has been removed, whatever the order and
\* however often a key was put, every bucket is empty.
C17_RoundTrip ==
    hlive = {} => \A i \in DOMAIN buckets : buckets[i] = <<>>

\* the last key was removed after keys had collided and a key had been put twice
C17_Witness ==
    /\ mop[1] = "remove"
    /\ mop[5] = Some(TRUE)
    /\ hlive = {}
    /\ overwrote
    /\ collided

StoredAt == {bp \in (DOMAIN buckets) \X (1..Cardinality(HKeys)) : bp[2] <= Len(buckets[bp[1]])}

\* C25: after any puts and removes every node of bucket i has
\* hash(key) mod size = i, no key is held by two nodes of the table, and the
\* stored keys are the keys put and not removed since, each with the value
\* of its most recent put.
C25_TableInvariant ==
    /\ \A i \in DOMAIN buckets : Len(buckets[i]) <= Cardinality(HKeys)
    /\ \A bp \in StoredAt : Hash(buckets[bp[1]][bp[2]][1]) % hsize = bp[1] - 1
    /\ \A bp \in StoredAt : \A bq \in StoredAt :
          buckets[bp[1]][bp[2]][1] = buckets[bq[1]][bq[2]][1] => bp = bq
    /\ {buckets[bp[1]][bp[2]][1] : bp \in StoredAt} = hlive
    /\ \A bp \in StoredAt :
          hput[buckets[bp[1]][bp[2]][1]] = Some(buckets[bp[1]][bp[2]][2])

\* a remove took a node out of a chain of three, after some put had changed
\* a stored value, and keys are still stored
C25_Witness ==
    /\ mop[1] = "remove"
    /\ mop[5] = Some(TRUE)
    /\ overwrote
    /\ \E i \in DOMAIN buckets : Len(mop[4][i]) >= 3 /\ Len(buckets[i]) = 2
    /\ Cardinality(hlive) = 2

\* ============================================== properties: binary_search
\* C19: on an ascending list binary_search terminates; it returns an index
\* of num when num occurs in the list and -1 when it does not; on
\* [11, ..., 20] it returns 6 for 17.
C19_BinarySearch ==
    /\ [](bs_ret # None =>
            IF \E i \in DOMAIN bs_ls : bs_ls[i] = bs_num
            THEN /\ bs_ret[1] \in 0..(Len(bs_ls) - 1)
                 /\ bs_ls[bs_ret[1] + 1] = bs_num
            ELSE bs_ret = Some(0 - 1))
    /\ []((bs_ret # None /\ bs_ls = ls /\ bs_num = num_to_find) => bs_ret = Some(6))
    /\ <>(bs_ret # None)

\* binary_search(ls, 17) has returned 6 after moving both ends
C19_Witness ==
    /\ bs_ls = ls
    /\ bs_num = num_to_find
    /\ bs_ret = Some(6)
    /\ bs_start > 0
    /\ bs_end < Len(ls) - 1

\* ================================ properties: sliding_window_sum_subarray
\* C20: sliding_window_sum_subarray returns 0, and raises nothing, when
\* window < 1, window > len(arr) or arr is empty.
C20_Malformed ==
    (sw_op[1] # None
       /\ (sw_op[1][1] < 1 \/ sw_op[1][1] > Len(sw_arr) \/ sw_arr = <<>>)) =>
        sw_op[2] = Some(0)

\* a call with window 0 on an array of positive numbers
C20_Witness ==
    /\ sw_op[1] = Some(0)
    /\ Len(sw_arr) >= 2
    /\ \A i \in DOMAIN sw_arr : sw_arr[i] > 0
    /\ sw_op[2] = Some(0)

\* the sum of the window elements of arr from 0-based index s on
RECURSIVE WindowSum(_, _, _)
WindowSum(arr, s, window) ==
    IF window = 0 THEN 0 ELSE arr[s + 1] + WindowSum(arr, s + 1, window - 1)

\* the sums of all contiguous subarrays of exactly window elements
WindowSums(arr, window) == {WindowSum(arr, s, window) : s \in 0..(Len(arr) - window)}

\* C26: for every integer array, negative values included, and every window
\* with 1 <= window <= len(arr), sliding_window_sum_subarray returns the
\* largest sum of a contiguous subarray of exactly window elements.
C26_MaxWindowSum ==
    (sw_op[1] # None /\ 1 <= sw_op[1][1] /\ sw_op[1][1] <= Len(sw_arr)) =>
        /\ sw_op[2] # None
        /\ Len(sw_op[2]) = 1
        /\ sw_op[2][1] \in WindowSums(sw_arr, sw_op[1][1])
        /\ \A x \in WindowSums(sw_arr, sw_op[1][1]) : x <= sw_op[2][1]

\* the same statement for the arrays of which some window has a sum of at
\* least 0: max_sum starts at 0 (line 5), so this is what the code gives
C26_MaxWindowSumNonNegative ==
    (sw_op[1] # None /\ 1 <= sw_op[1][1] /\ sw_op[1][1] <= Len(sw_arr)
       /\ \E x \in WindowSums(sw_arr, sw_op[1][1]) : x >= 0) =>
        /\ sw_op[2] # None
        /\ Len(sw_op[2]) = 1
        /\ sw_op[2][1] \in WindowSums(sw_arr, sw_op[1][1])
        /\ \A x \in WindowSums(sw_arr, sw_op[1][1]) : x <= sw_op[2][1]

\* a call on an array of negative numbers only, which returned 0
C26_Witness ==
    /\ sw_op[1] = Some(2)
    /\ Len(sw_arr) = 3
    /\ \A i \in DOMAIN sw_arr : sw_arr[i] < 0
    /\ sw_op[2] = Some(0)

\* ========================================== properties: SingleLinkedList
\* the data met by following next from node curr, in order
RECURSIVE Traverse(_, _)
Traverse(nodes, curr) ==
    IF curr = 0 THEN <<>>
    ELSE <<nodes[curr][1]>> \o Traverse(nodes, nodes[curr][2])

\* seq without its first element equal to d
RECURSIVE RemoveFirst(_, _)
RemoveFirst(seq, d) ==
    IF seq = <<>> THEN <<>>
    ELSE IF Head(seq) = d THEN Tail(seq)
    ELSE <<Head(seq)>> \o RemoveFirst(Tail(seq), d)

\* C21: on a list built by insert_at_end, delete_node_by_data(data) walks
\* from the head, removes the first node whose data equals data and keeps
\* the other nodes in order; when no node holds data it returns False and
\* leaves the list unchanged.
C21_DeleteByData ==
    sl_op[1] = "delete_node_by_data" =>
        LET before == Traverse(sl_op[3][1], sl_op[3][2])
            data == sl_op[2][1]
        IN  IF \E i \in DOMAIN before : before[i] = data
            THEN /\ sl_op[4][1] # "raise"
                 /\ Traverse(sl_nodes, sl_head) = RemoveFirst(before, data)
            ELSE /\ sl_op[4] = Some(FALSE)
                 /\ Traverse(sl_nodes, sl_head) = before

\* what every call of delete_node_by_data does: AttributeError, list untouched
C21_AlwaysRaises ==
    sl_op[1] = "delete_node_by_data" =>
        /\ sl_op[4] = Raise("AttributeError")
        /\ <<sl_nodes, sl_head>> = sl_op[3]

\* delete_node_by_data was called with the data of the second of three nodes
C21_Witness ==
    /\ sl_op[1] = "delete_node_by_data"
    /\ Len(Traverse(sl_op[3][1], sl_op[3][2])) = 3
    /\ Traverse(sl_op[3][1], sl_op[3][2])[2] = sl_op[2][1]
    /\ Traverse(sl_op[3][1], sl_op[3][2])[1] # sl_op[2][1]

\* =================================== properties: check_single_list_cycle
\* the node reached from head by k next links, 0 once the chain has ended
RECURSIVE Follow(_, _, _)
Follow(next, head, k) ==
    IF k = 0 \/ head = 0 THEN head ELSE Follow(next, next[head], k - 1)

\* following next from head comes to some node a second time
Revisits(next, head) ==
    \E i \in 0..MaxCycleNodes : \E j \in (i + 1)..(MaxCycleNodes + 1) :
        /\ Follow(next, head, i) # 0
        /\ Follow(next, head, i) = Follow(next, head, j)

\* C22: check_single_list_cycle terminates on every finite node structure;
\* it returns True if and only if following next from head revisits a node,
\* so False on every chain that ends, the empty list and a single node
\* included.
C22_CycleCheck ==
    /\ [](cy_ret # None => cy_ret = Some(Revisits(cy_next, cy_head)))
    /\ []((cy_ret # None /\ (cy_head = 0 \/ cy_next[cy_head] = 0)) => cy_ret = Some(FALSE))
    /\ <>(cy_ret # None)

\* True was returned on a chain of two nodes that leads into a one-node
\* loop, after two rounds
C22_Witness ==
    /\ cy_ret = Some(TRUE)
    /\ cy_head = 1
    /\ cy_next = [n \in CycleNodes |-> IF n < MaxCycleNodes THEN n + 1 ELSE n]
    /\ cy_slow = MaxCycleNodes

\* ============================================ properties: CirclularQueue
\* the number of elements a queue list holds: its entries that are not None
Held(queue) == Cardinality({i \in DOMAIN queue : queue[i] # None})

\* C23: dequeue and peek on a queue that holds no elements, fresh or
\* emptied, return "Queue is empty!", raise nothing and leave front, rear
\* and the stored elements unchanged.
C23_EmptySentinel ==
    (cq_op[1] \in {"dequeue", "peek"} /\ Held(cq_op[3][1]) = 0) =>
        /\ cq_op[4] = Str("Queue is empty!")
        /\ <<cq_queue, cq_front, cq_rear>> = cq_op[3]

\* what dequeue and peek do on every queue that can be reached: IndexError
C23_AlwaysRaises ==
    cq_op[1] \in {"dequeue", "peek"} =>
        /\ cq_op[4] = Raise("IndexError")
        /\ <<cq_queue, cq_front, cq_rear>> = cq_op[3]

\* dequeue was called on a freshly constructed queue
C23_Witness ==
    /\ cq_op[1] = "dequeue"
    /\ cq_op[3] = <<<<>>, 0 - 1, 0 - 1>>
    /\ cq_enq = <<>>

\* s is an initial part of t
IsPrefix(s, t) == Len(s) <= Len(t) /\ \A i \in DOMAIN s : s[i] = t[i]

\* C24: with fewer than capacity elements held, enqueue stores its argument
\* at index (rear + 1) mod capacity; with capacity elements held it returns
\* "Queue is full!" and changes nothing; dequeue returns the elements in the
\* order they were enqueued.
C24_BoundedFifo ==
    /\ (cq_op[1] = "enqueue" /\ Held(cq_op[3][1]) < cq_capacity) =>
          /\ cq_op[4] = None
          /\ cq_rear = (cq_op[3][3] + 1) % cq_capacity
          /\ InRange(cq_queue, cq_rear)
          /\ Elem(cq_queue, cq_rear) = cq_op[2]
    /\ (cq_op[1] = "enqueue" /\ Held(cq_op[3][1]) = cq_capacity) =>
          /\ cq_op[4] = Str("Queue is full!")
          /\ <<cq_queue, cq_front, cq_rear>> = cq_op[3]
    /\ IsPrefix(cq_deq, [i \in DOMAIN cq_enq |-> Some(cq_enq[i])])

\* what every enqueue does on every queue that can be reached: rear moves
\* on, then IndexError, and nothing is stored
C24_EnqueueRaises ==
    cq_op[1] = "enqueue" =>
        /\ cq_op[4] = Raise("IndexError")
        /\ cq_rear = (cq_op[3][3] + 1) % cq_capacity
        /\ cq_queue = <<>>

\* the second enqueue on a queue of capacity 3
C24_Witness ==
    /\ cq_capacity = 3
    /\ cq_op[1] = "enqueue"
    /\ Len(cq_enq) = 2
    /\ cq_op[3][3] = 0

\* ============================================== properties: searchInsert
\* the number of elements of nums that are less than target
CountLess(nums, target) == Cardinality({i \in DOMAIN nums : nums[i] < target})

\* C27: on a non-empty strictly ascending array searchInsert and
\* searchInsert2 return the same value: the index of target when it occurs,
\* and otherwise the number of elements less than target; searchInsert
\* never returns the -1 of its last line.
C27_SearchInsert ==
    si_nums # <<>> =>
        /\ si_ret # None =>
              /\ si_ret = Some(CountLess(si_nums, si_target))
              /\ si_ret # Some(0 - 1)
              /\ \A i \in DOMAIN si_nums : si_nums[i] = si_target => si_ret = Some(i - 1)
        /\ si_ret2 # None => si_ret2 = Some(CountLess(si_nums, si_target))
        /\ (si_ret # None /\ si_ret2 # None) => si_ret = si_ret2

\* both have returned 2 for a target that lies in a gap between the second
\* and the third of four elements
C27_Witness ==
    /\ Len(si_nums) = 4
    /\ si_nums[2] < si_target
    /\ si_target < si_nums[3]
    /\ si_ret = Some(2)
    /\ si_ret2 = Some(2)

\* ============================================= properties: addTwoNumbers
\* the number whose digits are listed least significant first
RECURSIVE NumberOf(_)
NumberOf(digits) ==
    IF digits = <<>> THEN 0 ELSE Head(digits) + 10 * NumberOf(Tail(digits))

\* C28: for two non-empty lists of digits, least significant first,
\* addTwoNumbers returns a list of single digits 0..9 that represents the
\* sum of the two numbers in the same order; [2,4,3] + [5,6,4] gives
\* [7,0,8] and [9,9,9,9,9,9,9] + [9,9,9,9] gives [8,9,9,9,0,0,0,1].
C28_AddTwoNumbers ==
    at_ret # None =>
        LET d1 == Traverse(at_heap, at_l1)
            d2 == Traverse(at_heap, at_l2)
            sum == Traverse(at_heap, at_ret[1])
        IN  /\ \A i \in DOMAIN sum : sum[i] \in Digits
            /\ NumberOf(sum) = NumberOf(d1) + NumberOf(d2)
            /\ (d1 = DemoL1 /\ d2 = DemoL2) => sum = <<7, 0, 8>>
            /\ (d1 = LongL1 /\ d2 = LongL2) => sum = <<8, 9, 9, 9, 0, 0, 0, 1>>

\* what addTwoNumbers returns for every two non-empty lists: one node that
\* holds the sum of the two first digits, the arguments being left as they were
C28_FirstDigitsOnly ==
    at_ret # None =>
        /\ Traverse(at_heap, at_ret[1]) = <<at_heap[at_l1][1] + at_heap[at_l2][1]>>
        /\ at_ret[1] \notin {at_l1, at_l2}

\* the module-level call addTwoNumbers(ls1, ls2) has returned the list [7]
C28_Witness ==
    /\ at_ret # None
    /\ Traverse(at_heap, at_l1) = DemoL1
    /\ Traverse(at_heap, at_l2) = DemoL2
    /\ Traverse(at_heap, at_ret[1]) = <<7>>

\* ================================================ properties: merge_sort
\* s and t hold the same elements, each the same number of times
IsPermutation(s, t) ==
    /\ Len(s) = Len(t)
    /\ \A i \in DOMAIN s : Count(s, s[i]) = Count(t, s[i])

\* C29: merge_sort(arr) terminates and returns a non-decreasing list that is
\* a permutation of arr, duplicates and every length included, and leaves
\* arr as it was; merge(left, right) on two non-decreasing lists returns a
\* non-decreasing list of exactly the elements of both.
C29_MergeSort ==
    /\ []((ms_fn = "merge_sort" /\ ms_ret # None) =>
            /\ Sorted(ms_ret[1])
            /\ IsPermutation(ms_ret[1], ms_args[1]))
    /\ []((ms_fn = "merge" /\ ms_ret # None) =>
            /\ Sorted(ms_ret[1])
            /\ IsPermutation(ms_ret[1], ms_args[1] \o ms_args[2]))
    /\ [][ms_args' = ms_args]_vars
    /\ <>(ms_ret # None)

\* merge_sort has returned for a list of MaxSort numbers that was in
\* descending order and held a number twice
C29_Witness ==
    /\ ms_fn = "merge_sort"
    /\ ms_ret # None
    /\ Len(ms_args[1]) = MaxSort
    /\ \A i \in 1..(MaxSort - 1) : ms_args[1][i] >= ms_args[1][i + 1]
    /\ ms_args[1][1] = ms_args[1][2]
    /\ ms_args[1][2] > ms_args[1][3]
    /\ ms_ret[1] # ms_args[1]

\* ========================================== properties: DoublyLinkedList
\* the next field of every DNode
NextOf(nodes) == [n \in DOMAIN nodes |-> nodes[n][2]]

\* s in reverse order
Reverse(s) == [i \in DOMAIN s |-> s[Len(s) + 1 - i]]

\* C30: after any insert_at_end, insert_at_start and delete_node_by_data
\* calls head.prev is None, m.prev is n for every node n reachable from head
\* with n.next = m, the chain is acyclic, and the forward traversal lists
\* the insert_at_start values in reverse call order and then the
\* insert_at_end values in call order.
C30_Links ==
    /\ dl_head # 0 => dl_nodes[dl_head][3] = 0
    /\ \A k \in 0..Len(dl_nodes) :
          LET n == Follow(NextOf(dl_nodes), dl_head, k)
          IN  (n # 0 /\ dl_nodes[n][2] # 0) => dl_nodes[dl_nodes[n][2]][3] = n
    /\ Follow(NextOf(dl_nodes), dl_head, Len(dl_nodes)) = 0
    /\ Follow(NextOf(dl_nodes), dl_head, Len(dl_nodes)) = 0 =>
          Traverse(dl_nodes, dl_head) = Reverse(dl_starts) \o dl_ends

\* delete_node_by_data was just called with the data of a node of a list
\* that two insert_at_start and two insert_at_end calls had built
C30_Witness ==
    /\ dl_op[1] = "delete_node_by_data"
    /\ Len(dl_starts) = 2
    /\ Len(dl_ends) = 2
    /\ dl_starts[1] # dl_starts[2]
    /\ \E i \in DOMAIN dl_nodes : dl_nodes[i][1] = dl_op[2][1]

====
